---- MODULE Spec2Model ----
(***************************************************************************)
(* A model of AutoNyan's shared event and parameter handling               *)
(* (shared/parameter-parser.ts: parsePubSubEvent, parseStorageEvent,       *)
(* validateRequiredFields, getEnvironmentVariables, getProjectId,          *)
(* createErrorResponse), of the classification response parser             *)
(* (file-classifier/classification.ts), of the error handling of the      *)
(* stage handlers, and of the handlers with the calls they make: the       *)
(* Drive scanners, docProcessor, textVisionProcessor, textFirebaseWriter   *)
(* and fileClassifier.  Text is a sequence of character codes, so that     *)
(* base64, UTF-8 and JSON are computed the way the platform computes them. *)
(***************************************************************************)
EXTENDS Integers, Sequences, FiniteSets, TLC

(***************************************************************************)
(* Characters and text                                                     *)
(***************************************************************************)

\* The printable ASCII characters, code 32 (space) to code 126 (tilde); the
\* grave accent (code 96) is spelled BACKTICK.
AsciiTable ==
  <<
     " ", "!", "\"", "#", "$", "%", "&", "'", "(", ")", "*", "+", ",", "-", ".", "/",
     "0", "1", "2", "3", "4", "5", "6", "7", "8", "9", ":", ";", "<", "=", ">", "?",
     "@", "A", "B", "C", "D", "E", "F", "G", "H", "I", "J", "K", "L", "M", "N", "O",
     "P", "Q", "R", "S", "T", "U", "V", "W", "X", "Y", "Z", "[", "\\", "]", "^", "_",
     "BACKTICK", "a", "b", "c", "d", "e", "f", "g", "h", "i", "j", "k", "l", "m", "n", "o",
     "p", "q", "r", "s", "t", "u", "v", "w", "x", "y", "z", "{", "|", "}", "~" >>

\* The character code of a printable ASCII character.
OrdTable == [ch \in {AsciiTable[i] : i \in 1..Len(AsciiTable)} |->
               31 + (CHOOSE i \in 1..Len(AsciiTable) : AsciiTable[i] = ch)]

Ord(ch) == OrdTable[ch]

\* The text (sequence of character codes) spelled by a tuple of characters.
Str(chars) == [i \in 1..Len(chars) |-> Ord(chars[i])]

\* F(e), with e computed once.
With(e, F(_)) == CHOOSE y \in {F(x) : x \in {e}} : TRUE

RECURSIVE Pow(_, _)
Pow(b, n) == IF n = 0 THEN 1 ELSE b * Pow(b, n - 1)

Min(a, b) == IF a < b THEN a ELSE b

\* s.substring(from - 1, to) in the 1-based indexing of sequences.
Slice(s, from, to) == IF from > to THEN <<>> ELSE SubSeq(s, from, to)

\* pat occurs in s at position i.
MatchAt(s, i, pat) ==
  /\ i >= 1
  /\ i + Len(pat) - 1 <= Len(s)
  /\ \A j \in 1..Len(pat) : s[i + j - 1] = pat[j]

Contains(s, pat) == \E i \in 1..(Len(s) + 1) : MatchAt(s, i, pat)

(***************************************************************************)
(* JavaScript values.  Every value is a record with the same fields, so    *)
(* that any two values can be compared: t is the value's kind (typeof,     *)
(* with "null" and "array" told apart), b a boolean, m and e a number      *)
(* m * 10^e with m not divisible by 10, s a string's text, and kv the      *)
(* members of an object in insertion order (or the items of an array).     *)
(***************************************************************************)

Undefined == [t |-> "undefined", b |-> FALSE, m |-> 0, e |-> 0, s |-> <<>>, kv |-> <<>>]
Null      == [t |-> "null", b |-> FALSE, m |-> 0, e |-> 0, s |-> <<>>, kv |-> <<>>]
Bool(x)   == [t |-> "boolean", b |-> x, m |-> 0, e |-> 0, s |-> <<>>, kv |-> <<>>]
StrV(x)   == [t |-> "string", b |-> FALSE, m |-> 0, e |-> 0, s |-> x, kv |-> <<>>]
Obj(x)    == [t |-> "object", b |-> FALSE, m |-> 0, e |-> 0, s |-> <<>>, kv |-> x]
Arr(x)    == [t |-> "array", b |-> FALSE, m |-> 0, e |-> 0, s |-> <<>>, kv |-> x]

RECURSIVE NormNum(_, _)
NormNum(m, e) ==
  IF m = 0 THEN <<0, 0>>
  ELSE IF m % 10 = 0 THEN NormNum(m \div 10, e + 1)
  ELSE <<m, e>>

Num(m, e) ==
  LET n == NormNum(m, e)
  IN  [t |-> "number", b |-> FALSE, m |-> n[1], e |-> n[2], s |-> <<>>, kv |-> <<>>]

Member(k, v) == [k |-> k, v |-> v]

\* The typeof operator.
TypeOf(v) == IF v.t \in {"null", "array"} THEN "object" ELSE v.t

\* !v : undefined, null, false, 0 and the empty string are falsy.
Falsy(v) ==
  \/ v.t \in {"undefined", "null"}
  \/ v.t = "boolean" /\ ~v.b
  \/ v.t = "number" /\ v.m = 0
  \/ v.t = "string" /\ v.s = <<>>

\* a < b, a = b for numbers m * 10^e.
NumLess(a, b) ==
  LET lo == Min(a.e, b.e)
  IN  a.m * Pow(10, a.e - lo) < b.m * Pow(10, b.e - lo)

HasKey(o, k) == \E i \in 1..Len(o.kv) : o.kv[i].k = k

\* o[k]: the property of an object, undefined when there is none.
Get(o, k) ==
  IF o.t = "object" /\ HasKey(o, k)
  THEN o.kv[CHOOSE i \in 1..Len(o.kv) : o.kv[i].k = k].v
  ELSE Undefined

\* The members after o[k] = v: a key already there keeps its place.
SetKey(kv, k, v) ==
  IF \E i \in 1..Len(kv) : kv[i].k = k
  THEN [i \in 1..Len(kv) |-> IF kv[i].k = k THEN Member(k, v) ELSE kv[i]]
  ELSE Append(kv, Member(k, v))

(***************************************************************************)
(* JSON.parse: a recursive-descent parser of the JSON grammar.             *)
(***************************************************************************)

ParseFail == [ok |-> FALSE, v |-> Undefined, i |-> 0]
ParseOk(v, i) == [ok |-> TRUE, v |-> v, i |-> i]

IsWs(c) == c \in {32, 9, 10, 13}
IsDigit(c) == c \in 48..57
IsHex(c) == c \in (48..57) \cup (65..70) \cup (97..102)
HexVal(c) == IF c <= 57 THEN c - 48 ELSE IF c <= 70 THEN c - 55 ELSE c - 87

RECURSIVE SkipWs(_, _)
SkipWs(s, i) == IF i <= Len(s) /\ IsWs(s[i]) THEN SkipWs(s, i + 1) ELSE i

\* The position after the run of digits that starts at i.
RECURSIVE DigitsEnd(_, _)
DigitsEnd(s, i) == IF i <= Len(s) /\ IsDigit(s[i]) THEN DigitsEnd(s, i + 1) ELSE i

\* The number written by the digits s[i..j-1], after the digits in acc.
RECURSIVE DigitsVal(_, _, _, _)
DigitsVal(s, i, j, acc) ==
  IF i >= j THEN acc ELSE DigitsVal(s, i + 1, j, 10 * acc + (s[i] - 48))

\* number: -? (0 | [1-9][0-9]*) (. [0-9]+)? ([eE] [+-]? [0-9]+)?
\* i1 is the position after the sign, i2 after the integer part, i3 after
\* the fraction, i4 at the digits of the exponent and i5 after them.
ParseNumber(s, i) ==
  With(IF s[i] = 45 THEN i + 1 ELSE i, LAMBDA i1 :
    IF ~(i1 <= Len(s) /\ IsDigit(s[i1])) THEN ParseFail
    ELSE
      With(IF s[i1] = 48 THEN i1 + 1 ELSE DigitsEnd(s, i1), LAMBDA i2 :
        With(i2 <= Len(s) /\ s[i2] = 46, LAMBDA hasFrac :
          IF hasFrac /\ ~(i2 + 1 <= Len(s) /\ IsDigit(s[i2 + 1])) THEN ParseFail
          ELSE
            With(IF hasFrac THEN DigitsEnd(s, i2 + 1) ELSE i2, LAMBDA i3 :
              With(i3 <= Len(s) /\ s[i3] \in {101, 69}, LAMBDA hasExp :
                With(IF hasExp /\ i3 + 1 <= Len(s) /\ s[i3 + 1] \in {43, 45}
                     THEN i3 + 2 ELSE i3 + 1, LAMBDA i4 :
                  IF hasExp /\ ~(i4 <= Len(s) /\ IsDigit(s[i4])) THEN ParseFail
                  ELSE
                    With(IF hasExp THEN DigitsEnd(s, i4) ELSE i3, LAMBDA i5 :
                      With(DigitsVal(s, IF hasFrac THEN i2 + 1 ELSE i2, i3,
                                     DigitsVal(s, i1, i2, 0)), LAMBDA mant :
                        With(IF hasExp THEN DigitsVal(s, i4, i5, 0) ELSE 0, LAMBDA expAbs :
                          ParseOk(Num(IF i1 > i THEN 0 - mant ELSE mant,
                                      (IF hasExp /\ s[i4 - 1] = 45
                                       THEN 0 - expAbs ELSE expAbs)
                                        - (IF hasFrac THEN i3 - (i2 + 1) ELSE 0)),
                                  i5))))))))))

\* The character an escape \c stands for.
Unescape(c) ==
  CASE c = 98  -> 8
    [] c = 102 -> 12
    [] c = 110 -> 10
    [] c = 114 -> 13
    [] c = 116 -> 9
    [] OTHER   -> c

\* The characters of a string up to its closing quote; i is after the opening one.
RECURSIVE ParseChars(_, _, _)
ParseChars(s, i, acc) ==
  IF i > Len(s) THEN ParseFail
  ELSE
    With(s[i], LAMBDA c :
      IF c = 34 THEN ParseOk(StrV(acc), i + 1)
      ELSE IF c < 32 THEN ParseFail
      ELSE IF c # 92 THEN ParseChars(s, i + 1, Append(acc, c))
      ELSE IF i + 1 > Len(s) THEN ParseFail
      ELSE
        With(s[i + 1], LAMBDA esc :
          IF esc \in {34, 92, 47, 98, 102, 110, 114, 116}
          THEN ParseChars(s, i + 2, Append(acc, Unescape(esc)))
          ELSE IF esc = 117 /\ i + 5 <= Len(s) /\ \A j \in 2..5 : IsHex(s[i + j])
          THEN ParseChars(s, i + 6, Append(acc,
                 4096 * HexVal(s[i + 2]) + 256 * HexVal(s[i + 3])
                   + 16 * HexVal(s[i + 4]) + HexVal(s[i + 5])))
          ELSE ParseFail))

\* The literals true, false and null.
Literals == {<<116, 114, 117, 101>>, <<102, 97, 108, 115, 101>>, <<110, 117, 108, 108>>}

LiteralValue(lit) ==
  IF lit[1] = 116 THEN Bool(TRUE) ELSE IF lit[1] = 102 THEN Bool(FALSE) ELSE Null

RECURSIVE ParseValue(_, _)
RECURSIVE ParseMembers(_, _, _)
RECURSIVE ParseElements(_, _, _)

\* value: an object, an array, a string, a number or a literal, after whitespace.
ParseValue(s, i0) ==
  With(SkipWs(s, i0), LAMBDA i :
    IF i > Len(s) THEN ParseFail
    ELSE IF s[i] \in {123, 91} THEN
      \* '{' (123) is closed by '}' (125) and '[' (91) by ']' (93).
      With(SkipWs(s, i + 1), LAMBDA j :
        IF j <= Len(s) /\ s[j] = s[i] + 2
        THEN ParseOk(IF s[i] = 123 THEN Obj(<<>>) ELSE Arr(<<>>), j + 1)
        ELSE IF s[i] = 123 THEN ParseMembers(s, j, <<>>)
        ELSE ParseElements(s, j, <<>>))
    ELSE IF s[i] = 34 THEN ParseChars(s, i + 1, <<>>)
    ELSE IF s[i] = 45 \/ IsDigit(s[i]) THEN ParseNumber(s, i)
    ELSE
      With({lit \in Literals : MatchAt(s, i, lit)}, LAMBDA lits :
        IF lits = {} THEN ParseFail
        ELSE With(CHOOSE lit \in lits : TRUE, LAMBDA lit :
               ParseOk(LiteralValue(lit), i + Len(lit)))))

\* members: string : value (, string : value)* } ; i is at the first key.
ParseMembers(s, i, acc) ==
  IF i > Len(s) \/ s[i] # 34 THEN ParseFail
  ELSE
    With(ParseChars(s, i + 1, <<>>), LAMBDA key :
      IF ~key.ok THEN ParseFail
      ELSE
        With(SkipWs(s, key.i), LAMBDA c :
          IF c > Len(s) \/ s[c] # 58 THEN ParseFail
          ELSE
            With(ParseValue(s, c + 1), LAMBDA val :
              IF ~val.ok THEN ParseFail
              ELSE
                With(SkipWs(s, val.i), LAMBDA d :
                  IF d > Len(s) \/ s[d] \notin {125, 44} THEN ParseFail
                  ELSE
                    With(SetKey(acc, key.v.s, val.v), LAMBDA acc2 :
                      IF s[d] = 125 THEN ParseOk(Obj(acc2), d + 1)
                      ELSE ParseMembers(s, SkipWs(s, d + 1), acc2))))))

\* elements: value (, value)* ] ; i is at the first item.
ParseElements(s, i, acc) ==
  With(ParseValue(s, i), LAMBDA val :
    IF ~val.ok THEN ParseFail
    ELSE
      With(SkipWs(s, val.i), LAMBDA d :
        IF d > Len(s) \/ s[d] \notin {93, 44} THEN ParseFail
        ELSE
          With(Append(acc, Member(<<>>, val.v)), LAMBDA acc2 :
            IF s[d] = 93 THEN ParseOk(Arr(acc2), d + 1)
            ELSE ParseElements(s, d + 1, acc2))))

\* JSON.parse(text): ok and the value, or not ok (a SyntaxError is thrown).
JSONParse(text) ==
  With(ParseValue(text, 1), LAMBDA r :
    IF r.ok /\ SkipWs(text, r.i) = Len(text) + 1
    THEN [ok |-> TRUE, v |-> r.v]
    ELSE [ok |-> FALSE, v |-> Undefined])

(***************************************************************************)
(* JSON.stringify                                                          *)
(***************************************************************************)

RECURSIVE NatText(_)
NatText(n) == IF n < 10 THEN <<48 + n>> ELSE Append(NatText(n \div 10), 48 + (n % 10))

RECURSIVE Zeros(_)
Zeros(n) == IF n <= 0 THEN <<>> ELSE <<48>> \o Zeros(n - 1)

\* The decimal text of m * 10^e (numbers in the range the language prints
\* without an exponent).
NumText(m, e) ==
  LET abs    == IF m < 0 THEN 0 - m ELSE m
      sign   == IF m < 0 THEN <<45>> ELSE <<>>
      digits == NatText(abs)
      padded == Zeros(1 - e - Len(digits)) \o digits
      cut    == Len(padded) + e
  IN  IF e >= 0 THEN sign \o digits \o Zeros(e)
      ELSE sign \o SubSeq(padded, 1, cut) \o <<46>> \o SubSeq(padded, cut + 1, Len(padded))

RECURSIVE QuoteChars(_)
QuoteChars(s) ==
  IF s = <<>> THEN <<>>
  ELSE (IF Head(s) \in {34, 92} THEN <<92, Head(s)>> ELSE <<Head(s)>>) \o QuoteChars(Tail(s))

Quote(s) == <<34>> \o QuoteChars(s) \o <<34>>

RECURSIVE Stringify(_)
RECURSIVE StringifyMembers(_, _)

\* JSON.stringify(v) of a JSON value.
Stringify(v) ==
  CASE v.t = "null"    -> <<110, 117, 108, 108>>
    [] v.t = "boolean" -> IF v.b THEN <<116, 114, 117, 101>> ELSE <<102, 97, 108, 115, 101>>
    [] v.t = "number"  -> NumText(v.m, v.e)
    [] v.t = "string"  -> Quote(v.s)
    [] v.t = "object"  -> <<123>> \o StringifyMembers(v.kv, TRUE) \o <<125>>
    [] v.t = "array"   -> <<91>> \o StringifyMembers(v.kv, FALSE) \o <<93>>

StringifyMembers(kv, keyed) ==
  IF kv = <<>> THEN <<>>
  ELSE (IF keyed THEN Quote(kv[1].k) \o <<58>> ELSE <<>>)
         \o Stringify(kv[1].v)
         \o (IF Len(kv) > 1 THEN <<44>> ELSE <<>>)
         \o StringifyMembers(Tail(kv), keyed)

(***************************************************************************)
(* Buffer: base64 and UTF-8                                                *)
(***************************************************************************)

\* The 6-bit value of a base64 character (the URL-safe - and _ included),
\* -1 for every other character.
Base64Index(c) ==
  IF c \in 65..90 THEN c - 65
  ELSE IF c \in 97..122 THEN c - 71
  ELSE IF c \in 48..57 THEN c + 4
  ELSE IF c \in {43, 45} THEN 62
  ELSE IF c \in {47, 95} THEN 63
  ELSE 0 - 1

Base64Char(n) ==
  IF n < 26 THEN 65 + n
  ELSE IF n < 52 THEN 71 + n
  ELSE IF n < 62 THEN n - 4
  ELSE IF n = 62 THEN 43
  ELSE 47

\* The 6-bit values of the legal characters of s from position i up to the
\* first '=' : the decoder skips a character that is not legal and stops
\* at the padding character.
RECURSIVE Sextets(_, _)
Sextets(s, i) ==
  IF i > Len(s) \/ s[i] = 61 THEN <<>>
  ELSE IF Base64Index(s[i]) < 0 THEN Sextets(s, i + 1)
  ELSE <<Base64Index(s[i])>> \o Sextets(s, i + 1)

\* Four 6-bit values make three bytes, three make two, two make one.
RECURSIVE SextetsToBytes(_)
SextetsToBytes(q) ==
  IF Len(q) < 2 THEN <<>>
  ELSE
    LET b1 == q[1] * 4 + (q[2] \div 16)
    IN  IF Len(q) = 2 THEN <<b1>>
        ELSE
          LET b2 == (q[2] % 16) * 16 + (q[3] \div 4)
          IN  IF Len(q) = 3 THEN <<b1, b2>>
              ELSE <<b1, b2, (q[3] % 4) * 64 + q[4]>>
                     \o SextetsToBytes(SubSeq(q, 5, Len(q)))

\* Buffer.from(s, 'base64'): never throws.
Base64Decode(s) == SextetsToBytes(Sextets(s, 1))

\* buffer.toString('base64')
RECURSIVE Base64Encode(_)
Base64Encode(b) ==
  IF Len(b) = 0 THEN <<>>
  ELSE IF Len(b) = 1 THEN
    <<Base64Char(b[1] \div 4), Base64Char((b[1] % 4) * 16), 61, 61>>
  ELSE IF Len(b) = 2 THEN
    <<Base64Char(b[1] \div 4), Base64Char((b[1] % 4) * 16 + (b[2] \div 16)),
      Base64Char((b[2] % 16) * 4), 61>>
  ELSE
    <<Base64Char(b[1] \div 4), Base64Char((b[1] % 4) * 16 + (b[2] \div 16)),
      Base64Char((b[2] % 16) * 4 + (b[3] \div 64)), Base64Char(b[3] % 64)>>
      \o Base64Encode(SubSeq(b, 4, Len(b)))

\* buffer.toString('utf-8'): a byte sequence that is not well formed gives
\* U+FFFD (65533) for each maximal ill-formed part.
RECURSIVE Utf8Decode(_, _)
Utf8Decode(b, i) ==
  IF i > Len(b) THEN <<>>
  ELSE
    LET c == b[i]
        In(j, lo, hi) == j <= Len(b) /\ b[j] \in lo..hi
        Bad(n) == <<65533>> \o Utf8Decode(b, i + n)
    IN  IF c < 128 THEN <<c>> \o Utf8Decode(b, i + 1)
        ELSE IF c \in 194..223 THEN
          IF In(i + 1, 128, 191)
          THEN <<(c - 192) * 64 + (b[i + 1] - 128)>> \o Utf8Decode(b, i + 2)
          ELSE Bad(1)
        ELSE IF c \in 224..239 THEN
          LET lo == IF c = 224 THEN 160 ELSE 128
              hi == IF c = 237 THEN 159 ELSE 191
          IN  IF ~In(i + 1, lo, hi) THEN Bad(1)
              ELSE IF ~In(i + 2, 128, 191) THEN Bad(2)
              ELSE <<(c - 224) * 4096 + (b[i + 1] - 128) * 64 + (b[i + 2] - 128)>>
                     \o Utf8Decode(b, i + 3)
        ELSE IF c \in 240..244 THEN
          LET lo == IF c = 240 THEN 144 ELSE 128
              hi == IF c = 244 THEN 143 ELSE 191
          IN  IF ~In(i + 1, lo, hi) THEN Bad(1)
              ELSE IF ~In(i + 2, 128, 191) THEN Bad(2)
              ELSE IF ~In(i + 3, 128, 191) THEN Bad(3)
              ELSE <<(c - 240) * 262144 + (b[i + 1] - 128) * 4096
                       + (b[i + 2] - 128) * 64 + (b[i + 3] - 128)>>
                     \o Utf8Decode(b, i + 4)
        ELSE Bad(1)

\* Buffer.from(text): the UTF-8 bytes of a text.
RECURSIVE Utf8Encode(_)
Utf8Encode(s) ==
  IF s = <<>> THEN <<>>
  ELSE
    LET c == Head(s)
    IN  (IF c < 128 THEN <<c>>
         ELSE IF c < 2048 THEN <<192 + (c \div 64), 128 + (c % 64)>>
         ELSE IF c < 65536
              THEN <<224 + (c \div 4096), 128 + ((c \div 64) % 64), 128 + (c % 64)>>
         ELSE <<240 + (c \div 262144), 128 + ((c \div 4096) % 64),
                128 + ((c \div 64) % 64), 128 + (c % 64)>>)
          \o Utf8Encode(Tail(s))

\* Buffer.from(rawData, 'base64').toString('utf-8')
DecodeBase64Text(rawData) == Utf8Decode(Base64Decode(rawData), 1)

\* Buffer.from(text).toString('base64')
EncodeBase64Text(text) == Base64Encode(Utf8Encode(text))

(***************************************************************************)
(* parsePubSubEvent                                                        *)
(***************************************************************************)

\* A CloudEvent: absent (null or undefined), or its data and its source.
NoEvent == [present |-> FALSE, data |-> Undefined, source |-> Undefined]
Event(data, source) == [present |-> TRUE, data |-> data, source |-> source]

\* A payload whose accessor throws when the event's data is read: the one
\* way an exception other than the parser's own arises inside the try block.
ThrowingAccessor ==
  [t |-> "throws", b |-> FALSE, m |-> 0, e |-> 0, s |-> <<>>, kv |-> <<>>]

\* The outcomes of a call: a returned PubSubMessage, or a thrown error with
\* its class, its message and the class of its cause.
Returned(data, attributes) ==
  [kind |-> "ok", data |-> data, attributes |-> attributes,
   message |-> "", cause |-> "none"]
Thrown(kind, message, cause) ==
  [kind |-> kind, data |-> Undefined, attributes |-> Undefined,
   message |-> message, cause |-> cause]

\* SourceAttributes without the test for a source.
SourceAttributesAlways(cloudEvent) ==
  Obj(<<Member(Str(<<"s", "o", "u", "r", "c", "e">>), cloudEvent.source)>>)

\* cloudEvent.source ? { source: cloudEvent.source } : undefined
SourceAttributes(cloudEvent) ==
  IF Falsy(cloudEvent.source) THEN Undefined
  ELSE Obj(<<Member(Str(<<"s", "o", "u", "r", "c", "e">>), cloudEvent.source)>>)

\* DecodedData without the base64 step.
DecodedDataRaw(rawData) == rawData

\* The text handed to JSON.parse for a string payload.  Buffer.from does not
\* throw on any string, so the catch branch (decodedData = rawData) is
\* never taken.
DecodedData(rawData) == DecodeBase64Text(rawData)

\* The try block returning an empty record when JSON.parse throws.
parsePubSubEventDefaulting(cloudEvent) ==
  IF ~cloudEvent.present
  THEN Thrown("ValidationError", "CloudEvent is required", "none")
  ELSE IF cloudEvent.data = ThrowingAccessor
  THEN Thrown("TypeError", "accessor failed", "none")
  ELSE IF Falsy(cloudEvent.data)
  THEN Thrown("ValidationError", "CloudEvent data is required", "none")
  ELSE IF TypeOf(cloudEvent.data) = "string" THEN
    With(JSONParse(DecodedData(cloudEvent.data.s)), LAMBDA parsedData :
      Returned(IF parsedData.ok THEN parsedData.v ELSE Obj(<<>>),
               SourceAttributes(cloudEvent)))
  ELSE IF TypeOf(cloudEvent.data) = "object"
  THEN Returned(cloudEvent.data, SourceAttributes(cloudEvent))
  ELSE Thrown("ValidationError",
              "Unsupported data type: " \o TypeOf(cloudEvent.data), "none")

\* The try block without the test that the event has data.
parsePubSubEventUnchecked(cloudEvent) ==
  IF ~cloudEvent.present
  THEN Thrown("ValidationError", "CloudEvent is required", "none")
  ELSE IF cloudEvent.data = ThrowingAccessor
  THEN Thrown("TypeError", "accessor failed", "none")
  ELSE IF TypeOf(cloudEvent.data) = "string" THEN
    With(JSONParse(DecodedData(cloudEvent.data.s)), LAMBDA parsedData :
      IF parsedData.ok
      THEN Returned(parsedData.v, SourceAttributes(cloudEvent))
      ELSE Thrown("ParameterParsingError",
                  "Failed to parse JSON data from PubSub message", "SyntaxError"))
  ELSE IF TypeOf(cloudEvent.data) = "object"
  THEN Returned(cloudEvent.data, SourceAttributes(cloudEvent))
  ELSE Thrown("ValidationError",
              "Unsupported data type: " \o TypeOf(cloudEvent.data), "none")

\* The try block of parsePubSubEvent: what it returns or throws.
parsePubSubEventTry(cloudEvent) ==
  IF ~cloudEvent.present
  THEN Thrown("ValidationError", "CloudEvent is required", "none")
  ELSE IF cloudEvent.data = ThrowingAccessor
  THEN Thrown("TypeError", "accessor failed", "none")
  ELSE IF Falsy(cloudEvent.data)
  THEN Thrown("ValidationError", "CloudEvent data is required", "none")
  ELSE IF TypeOf(cloudEvent.data) = "string" THEN
    With(JSONParse(DecodedData(cloudEvent.data.s)), LAMBDA parsedData :
      IF parsedData.ok
      THEN Returned(parsedData.v, SourceAttributes(cloudEvent))
      ELSE Thrown("ParameterParsingError",
                  "Failed to parse JSON data from PubSub message", "SyntaxError"))
  ELSE IF TypeOf(cloudEvent.data) = "object"
  THEN Returned(cloudEvent.data, SourceAttributes(cloudEvent))
  ELSE Thrown("ValidationError",
              "Unsupported data type: " \o TypeOf(cloudEvent.data), "none")

\* The catch block wrapping every error, the parser's own kinds included.
OuterCatchWrappingAll(outcome) ==
  IF outcome.kind = "ok" THEN outcome
  ELSE Thrown("ParameterParsingError", "Failed to parse PubSub CloudEvent", outcome.kind)

\* The catch block of parsePubSubEvent: an error of the parser's own kinds
\* is rethrown as it is, any other is wrapped as a ParameterParsingError.
OuterCatch(outcome) ==
  IF outcome.kind \in {"ok", "ParameterParsingError", "ValidationError"} THEN outcome
  ELSE Thrown("ParameterParsingError", "Failed to parse PubSub CloudEvent", outcome.kind)

parsePubSubEvent(cloudEvent) == OuterCatch(parsePubSubEventTry(cloudEvent))

(***************************************************************************)
(* Classification response parser                                          *)
(***************************************************************************)

UNCATEGORIZED == Str(<<"U", "N", "C", "A", "T", "E", "G", "O", "R", "I", "Z", "E", "D">>)

KeyCategory   == Str(<<"c", "a", "t", "e", "g", "o", "r", "y">>)
KeyConfidence == Str(<<"c", "o", "n", "f", "i", "d", "e", "n", "c", "e">>)
KeyReasoning  == Str(<<"r", "e", "a", "s", "o", "n", "i", "n", "g">>)

FenceOpen  == Str(<<"BACKTICK", "BACKTICK", "BACKTICK", "j", "s", "o", "n">>)
FenceClose == Str(<<"BACKTICK", "BACKTICK", "BACKTICK">>)

\* The characters the pattern \s matches.
IsSpace(c) ==
  \/ c \in {9, 10, 11, 12, 13, 32, 160, 5760, 8232, 8233, 8239, 8287, 12288, 65279}
  \/ c \in 8192..8202

RECURSIVE SkipSpace(_, _)
SkipSpace(s, i) == IF i <= Len(s) /\ IsSpace(s[i]) THEN SkipSpace(s, i + 1) ELSE i

\* The positions of s where pat occurs.
Occurrences(s, pat) == {i \in 1..Len(s) : MatchAt(s, i, pat)}

SetMin(S) == CHOOSE x \in S : \A y \in S : x <= y
SetMax(S) == CHOOSE x \in S : \A y \in S : x >= y

\* responseText.match(/```json\s*([\s\S]*?)\s*```/): the leftmost opening
\* marker, the longest run of spaces after it, then the shortest text that
\* is followed by spaces and the closing marker.  found is FALSE when the
\* pattern does not match; text is capture group 1.
FenceMatch(s) ==
  With(Occurrences(s, FenceOpen), LAMBDA opens :
    IF opens = {} THEN [found |-> FALSE, text |-> <<>>]
    ELSE
      With(SkipSpace(s, SetMin(opens) + Len(FenceOpen)), LAMBDA start :
        With({p \in start..(Len(s) + 1) : MatchAt(s, SkipSpace(s, p), FenceClose)},
             LAMBDA ends :
          IF ends = {} THEN [found |-> FALSE, text |-> <<>>]
          ELSE [found |-> TRUE, text |-> Slice(s, start, SetMin(ends) - 1)])))

\* ObjectMatch with the shortest span: from the first '{' to the first '}'
\* after it.
ObjectMatchShortest(s) ==
  With({i \in 1..Len(s) : s[i] = 123}, LAMBDA opens :
    With({i \in 1..Len(s) : s[i] = 125 /\ opens # {} /\ i > SetMin(opens)},
         LAMBDA closes :
      IF opens = {} \/ closes = {}
      THEN [found |-> FALSE, text |-> <<>>]
      ELSE [found |-> TRUE, text |-> SubSeq(s, SetMin(opens), SetMin(closes))]))

\* jsonText.match(/\{[\s\S]*\}/): from the first '{' to the last '}' after it.
ObjectMatch(s) ==
  With({i \in 1..Len(s) : s[i] = 123}, LAMBDA opens :
    With({i \in 1..Len(s) : s[i] = 125}, LAMBDA closes :
      IF opens = {} \/ closes = {} \/ SetMax(closes) < SetMin(opens)
      THEN [found |-> FALSE, text |-> <<>>]
      ELSE [found |-> TRUE, text |-> SubSeq(s, SetMin(opens), SetMax(closes))]))

Zero == Num(0, 0)
One  == Num(1, 0)

\* ClampConfidence without the lower bound: Math.min(1, confidence).
ClampConfidenceAbove(c) == IF NumLess(One, c) THEN One ELSE c

\* Math.max(0, Math.min(1, confidence))
ClampConfidence(c) ==
  LET lower == IF NumLess(One, c) THEN One ELSE c
  IN  IF NumLess(lower, Zero) THEN Zero ELSE lower

\* The outcomes of parseGeminiResponse: the GeminiResponse, or a thrown error.
Parsed(category, confidence, reasoning) ==
  [kind |-> "ok", message |-> "", category |-> category,
   confidence |-> confidence, reasoning |-> reasoning]
ParseError(kind, message) ==
  [kind |-> kind, message |-> message, category |-> <<>>,
   confidence |-> Zero, reasoning |-> <<>>]

\* parseGeminiResponse without the validation of the types: what is not a
\* string counts as the empty text, what is not a number as 0.
parseGeminiResponseUnvalidated(responseText) ==
  With(FenceMatch(responseText), LAMBDA jsonMatch :
    With(ObjectMatch(IF jsonMatch.found THEN jsonMatch.text ELSE responseText),
         LAMBDA objectMatch :
      IF ~objectMatch.found
      THEN ParseError("Error", "No JSON object found in Gemini response")
      ELSE
        With(JSONParse(objectMatch.text), LAMBDA json :
          IF ~json.ok THEN ParseError("SyntaxError", "JSON.parse")
          ELSE Parsed(Get(json.v, KeyCategory).s,
                      ClampConfidence(Get(json.v, KeyConfidence)),
                      Get(json.v, KeyReasoning).s))))

parseGeminiResponse(responseText) ==
  With(FenceMatch(responseText), LAMBDA jsonMatch :
    With(ObjectMatch(IF jsonMatch.found THEN jsonMatch.text ELSE responseText),
         LAMBDA objectMatch :
      IF ~objectMatch.found
      THEN ParseError("Error", "No JSON object found in Gemini response")
      ELSE
        With(JSONParse(objectMatch.text), LAMBDA json :
          IF ~json.ok THEN ParseError("SyntaxError", "JSON.parse")
          ELSE IF \/ TypeOf(Get(json.v, KeyCategory)) # "string"
                  \/ TypeOf(Get(json.v, KeyConfidence)) # "number"
                  \/ TypeOf(Get(json.v, KeyReasoning)) # "string"
          THEN ParseError("Error", "Invalid response structure from Gemini")
          ELSE Parsed(Get(json.v, KeyCategory).s,
                      ClampConfidence(Get(json.v, KeyConfidence)),
                      Get(json.v, KeyReasoning).s))))

\* A candidate category: a Drive folder's id and name.
CategoryFolder(id, name) == [id |-> id, name |-> name]

\* FindCategory taking the last candidate of that name.
FindLastCategory(categories, name) ==
  LET hits == {i \in 1..Len(categories) : categories[i].name = name}
  IN  IF hits = {} THEN 0 ELSE SetMax(hits)

\* categories.find((c) => c.name === name): the position of the first
\* candidate of that name, 0 when there is none.
FindCategory(categories, name) ==
  LET hits == {i \in 1..Len(categories) : categories[i].name = name}
  IN  IF hits = {} THEN 0 ELSE SetMin(hits)

\* The outcomes of classifyWithGemini: a ClassificationResult, or a thrown error.
Classification(categoryName, categoryFolderId, confidence, reasoning) ==
  [kind |-> "ok", message |-> "", categoryName |-> categoryName,
   categoryFolderId |-> categoryFolderId, confidence |-> confidence,
   reasoning |-> reasoning]
ClassifyError(kind, message) ==
  [kind |-> kind, message |-> message, categoryName |-> Null,
   categoryFolderId |-> Null, confidence |-> Zero, reasoning |-> <<>>]

\* `Category "${parsed.category}" not found in available folders`
NotFoundReasoning(category) ==
  Str(<<"C", "a", "t", "e", "g", "o", "r", "y", " ", "\"">>) \o category
    \o Str(<<"\"", " ", "n", "o", "t", " ", "f", "o", "u", "n", "d", " ", "i", "n", " ",
             "a", "v", "a", "i", "l", "a", "b", "l", "e", " ", "f", "o", "l", "d", "e", "r", "s">>)

\* UnmatchedResult with the model's confidence kept.
UnmatchedResultKeepingConfidence(parsed) ==
  Classification(Null, Null, parsed.confidence, NotFoundReasoning(parsed.category))

\* The result when the category names no folder and is not the sentinel.
UnmatchedResult(parsed) ==
  Classification(Null, Null, Zero, NotFoundReasoning(parsed.category))

\* categoryFolder?.id || null
FolderIdOrNull(categories, found) ==
  IF found = 0 \/ categories[found].id = <<>> THEN Null
  ELSE StrV(categories[found].id)

\* The result for a matched category (found > 0) or for the sentinel.
ResolvedResult(parsed, categories, found) ==
  Classification(IF found > 0 THEN StrV(parsed.category) ELSE Null,
                 FolderIdOrNull(categories, found),
                 parsed.confidence, parsed.reasoning)

\* ResolveCategory with the sentinel treated as any other unmatched name.
ResolveCategoryWithoutSentinel(parsed, categories) ==
  LET found == FindCategory(categories, parsed.category)
  IN  IF found = 0 THEN UnmatchedResult(parsed)
      ELSE ResolvedResult(parsed, categories, found)

\* The resolution of a parsed response against the candidates.
ResolveCategory(parsed, categories) ==
  LET found == FindCategory(categories, parsed.category)
  IN  IF found = 0 /\ parsed.category # UNCATEGORIZED
      THEN UnmatchedResult(parsed)
      ELSE ResolvedResult(parsed, categories, found)

\* classifyWithGemini from the model's response on: response is the text of
\* the first part of the first candidate, undefined when there is none.
classifyWithGemini(response, categories) ==
  IF Falsy(response) THEN ClassifyError("Error", "No response from Gemini API")
  ELSE
    With(parseGeminiResponse(response.s), LAMBDA parsed :
      IF parsed.kind # "ok" THEN ClassifyError(parsed.kind, parsed.message)
      ELSE ResolveCategory(parsed, categories))

(***************************************************************************)
(* Errors and the error normalizer (shared/parameter-parser.ts)            *)
(***************************************************************************)

\* The text of a sequence of character codes, as a string of a message.
RECURSIVE Text(_)
Text(s) == IF s = <<>> THEN "" ELSE AsciiTable[Head(s) - 31] \o Text(Tail(s))

\* texts.join(sep)
RECURSIVE Join(_, _)
Join(texts, sep) ==
  IF texts = <<>> THEN ""
  ELSE IF Len(texts) = 1 THEN Text(texts[1])
  ELSE Text(texts[1]) \o sep \o Join(Tail(texts), sep)

\* A thrown value: an Error object of a class (its constructor's name) with
\* a message and, for a ValidationError, a field; or any other value.
ErrorOf(class, message, field) ==
  [isError |-> TRUE, class |-> class, message |-> message, field |-> field,
   value |-> Undefined]
ThrownValue(v) ==
  [isError |-> FALSE, class |-> "none", message |-> "", field |-> <<>>, value |-> v]

\* error instanceof C, for the two classes of the parser.
InstanceOf(error, class) == error.isError /\ error.class = class

ErrorResponse(errorMessage, context, errorType) ==
  [error |-> errorMessage, context |-> context, type |-> errorType]

\* createErrorResponse naming every Error by the class Error.
createErrorResponseGeneric(error, context) ==
  IF error.isError THEN ErrorResponse(error.message, context, "Error")
  ELSE ErrorResponse("Unknown error occurred", context, "UnknownError")

\* createErrorResponse taking the message of whatever was thrown.
createErrorResponseTrusting(error, context) ==
  ErrorResponse(error.message, context, error.class)

createErrorResponse(error, context) ==
  IF InstanceOf(error, "ParameterParsingError")
  THEN ErrorResponse(error.message, context, "ParameterParsingError")
  ELSE IF InstanceOf(error, "ValidationError")
  THEN ErrorResponse(error.message, context, "ValidationError")
  ELSE IF error.isError
  THEN ErrorResponse(error.message, context, error.class)
  ELSE ErrorResponse("Unknown error occurred", context, "UnknownError")

(***************************************************************************)
(* validateRequiredFields (shared/parameter-parser.ts)                     *)
(***************************************************************************)

\* The outcomes of a check: nothing returned, or a thrown error.
Passed == [kind |-> "ok", error |-> ThrownValue(Undefined)]
Failed(error) == [kind |-> error.class, error |-> error]

\* IsMissing with the falsy test (0 and false missing too).
IsMissingFalsy(v) == Falsy(v)

\* data[field] === undefined || data[field] === null || data[field] === ''
IsMissing(v) ==
  \/ v.t \in {"undefined", "null"}
  \/ v.t = "string" /\ v.s = <<>>

\* requiredFields.filter(...)
MissingFields(data, requiredFields) ==
  SelectSeq(requiredFields, LAMBDA field : IsMissing(Get(data, field)))

\* OffendingField taking the last missing field.
OffendingFieldLast(missingFields) == missingFields[Len(missingFields)]

\* missingFields[0]
OffendingField(missingFields) == missingFields[1]

\* Reading a property of null or undefined throws a TypeError; the filter
\* reads data[field] only when there is a required field.
validateRequiredFields(data, requiredFields) ==
  IF data.t \in {"undefined", "null"} /\ requiredFields # <<>>
  THEN Failed(ErrorOf("TypeError",
                      "Cannot read properties of " \o data.t, <<>>))
  ELSE
    With(MissingFields(data, requiredFields), LAMBDA missingFields :
      IF Len(missingFields) > 0
      THEN Failed(ErrorOf("ValidationError",
                          "Missing required fields: " \o Join(missingFields, ", "),
                          OffendingField(missingFields)))
      ELSE Passed)

(***************************************************************************)
(* getEnvironmentVariables and getProjectId (shared/parameter-parser.ts).  *)
(* The process environment is an object whose members are strings.         *)
(***************************************************************************)

GoogleCloudPrefix == Str(<<"G", "O", "O", "G", "L", "E", "_", "C", "L", "O", "U", "D", "_">>)

\* a || b
Or(a, b) == IF Falsy(a) THEN b ELSE a

\* ResolvedValue without the fallback name.
ResolvedValueUnprefixed(environment, envVar) == Get(environment, envVar)

\* process.env[envVar] || process.env[`GOOGLE_CLOUD_${envVar}`]
ResolvedValue(environment, envVar) ==
  Or(Get(environment, envVar), Get(environment, GoogleCloudPrefix \o envVar))

EnvVar(name, required) == [name |-> name, required |-> required]

\* The names pushed to missing, in the order of the entries.
RECURSIVE MissingVars(_, _)
MissingVars(envVars, environment) ==
  IF envVars = <<>> THEN <<>>
  ELSE (IF Falsy(ResolvedValue(environment, Head(envVars).name)) /\ Head(envVars).required
        THEN <<Head(envVars).name>> ELSE <<>>)
       \o MissingVars(Tail(envVars), environment)

\* The members of result after the loop over the entries, from those in kv.
RECURSIVE ResolvedVars(_, _, _)
ResolvedVars(envVars, environment, kv) ==
  IF envVars = <<>> THEN kv
  ELSE ResolvedVars(Tail(envVars), environment,
         IF Falsy(ResolvedValue(environment, Head(envVars).name)) THEN kv
         ELSE SetKey(kv, Head(envVars).name,
                     ResolvedValue(environment, Head(envVars).name)))

\* The outcomes of a resolution: a returned value, or a thrown error.
Resolved(result) == [kind |-> "ok", result |-> result, error |-> ThrownValue(Undefined)]
Unresolved(error) == [kind |-> error.class, result |-> Undefined, error |-> error]

\* getEnvironmentVariables returning what it resolved when a required
\* entry is missing.
getEnvironmentVariablesPartial(envVars, environment) ==
  Resolved(Obj(ResolvedVars(envVars, environment, <<>>)))

getEnvironmentVariables(envVars, environment) ==
  With(MissingVars(envVars, environment), LAMBDA missing :
    IF Len(missing) > 0
    THEN Unresolved(ErrorOf("ValidationError",
                            "Missing required environment variables: "
                              \o Join(missing, ", "), <<>>))
    ELSE Resolved(Obj(ResolvedVars(envVars, environment, <<>>))))

PROJECT_ID           == Str(<<"P", "R", "O", "J", "E", "C", "T", "_", "I", "D">>)
GOOGLE_CLOUD_PROJECT == Str(<<"G", "O", "O", "G", "L", "E", "_", "C", "L", "O", "U", "D", "_", "P", "R", "O", "J", "E", "C", "T">>)
GCLOUD_PROJECT       == Str(<<"G", "C", "L", "O", "U", "D", "_", "P", "R", "O", "J", "E", "C", "T">>)

\* ProjectIdOf with the three names in the opposite order.
ProjectIdOfReversed(environment) ==
  Or(Or(Get(environment, GCLOUD_PROJECT), Get(environment, GOOGLE_CLOUD_PROJECT)),
     Get(environment, PROJECT_ID))

\* process.env.PROJECT_ID || process.env.GOOGLE_CLOUD_PROJECT
\*   || process.env.GCLOUD_PROJECT
ProjectIdOf(environment) ==
  Or(Or(Get(environment, PROJECT_ID), Get(environment, GOOGLE_CLOUD_PROJECT)),
     Get(environment, GCLOUD_PROJECT))

getProjectId(environment) ==
  With(ProjectIdOf(environment), LAMBDA projectId :
    IF Falsy(projectId)
    THEN Unresolved(ErrorOf("ValidationError",
                            "PROJECT_ID environment variable is required", <<>>))
    ELSE Resolved(projectId))

(***************************************************************************)
(* parseStorageEvent (shared/parameter-parser.ts)                          *)
(***************************************************************************)

KeyBucket      == Str(<<"b", "u", "c", "k", "e", "t">>)
KeyName        == Str(<<"n", "a", "m", "e">>)
KeyContentType == Str(<<"c", "o", "n", "t", "e", "n", "t", "T", "y", "p", "e">>)

\* The storage event data returned, reduced to the fields the extraction
\* handler reads.
StorageEventData(storageObjectData) ==
  Obj(<<Member(KeyBucket, Get(storageObjectData, KeyBucket)),
        Member(KeyName, Get(storageObjectData, KeyName)),
        Member(KeyContentType, Get(storageObjectData, KeyContentType))>>)

parseStorageEvent(storageObjectData) ==
  IF Falsy(storageObjectData)
  THEN Unresolved(ErrorOf("ValidationError", "StorageObjectData is required", <<>>))
  ELSE IF Falsy(Get(storageObjectData, KeyBucket))
  THEN Unresolved(ErrorOf("ValidationError", "Storage bucket name is required", KeyBucket))
  ELSE IF Falsy(Get(storageObjectData, KeyName))
  THEN Unresolved(ErrorOf("ValidationError", "Storage object name is required", KeyName))
  ELSE Resolved(StorageEventData(storageObjectData))

(***************************************************************************)
(* The stage handlers, up to their first call of an external service: the  *)
(* outcome of the calls after it is an input (external).                   *)
(***************************************************************************)

Stages == {"driveScanner", "docProcessor", "textVisionProcessor", "fileClassifier"}

KeyFolderId == Str(<<"f", "o", "l", "d", "e", "r", "I", "d">>)
KeyFileId   == Str(<<"f", "i", "l", "e", "I", "d">>)

CATEGORY_ROOT_FOLDER_ID == Str(<<"C", "A", "T", "E", "G", "O", "R", "Y", "_", "R", "O", "O", "T", "_", "F", "O", "L", "D", "E", "R", "_", "I", "D">>)
UNCATEGORIZED_FOLDER_ID == Str(<<"U", "N", "C", "A", "T", "E", "G", "O", "R", "I", "Z", "E", "D", "_", "F", "O", "L", "D", "E", "R", "_", "I", "D">>)

SUPPORTED_MIME_TYPES ==
  { Str(<<"a", "p", "p", "l", "i", "c", "a", "t", "i", "o", "n", "/", "p", "d", "f">>),
    Str(<<"t", "e", "x", "t", "/", "p", "l", "a", "i", "n">>),
    Str(<<"i", "m", "a", "g", "e", "/", "j", "p", "e", "g">>),
    Str(<<"i", "m", "a", "g", "e", "/", "p", "n", "g">>),
    Str(<<"i", "m", "a", "g", "e", "/", "g", "i", "f">>),
    Str(<<"i", "m", "a", "g", "e", "/", "b", "m", "p">>),
    Str(<<"i", "m", "a", "g", "e", "/", "w", "e", "b", "p">>),
    Str(<<"i", "m", "a", "g", "e", "/", "t", "i", "f", "f">>) }

\* `${v}` for a string or undefined.
TemplateText(v) == IF v.t = "string" THEN Text(v.s) ELSE v.t

\* The outcomes of a handler: a result, or a thrown error.
Completed == [kind |-> "ok", error |-> ThrownValue(Undefined)]

\* The error an outcome of parsePubSubEvent carries.
ErrorOfMessage(message) == ErrorOf(message.kind, message.message, <<>>)

\* The rest of a handler, the calls of external services: it completes or
\* throws what external says.
ExternalCalls(external) == IF external.kind = "ok" THEN Completed ELSE Failed(external.error)

\* parsePubSubEvent, then validateRequiredFields for one field, then rest.
ParseAndValidate(cloudEvent, field, rest) ==
  With(parsePubSubEvent(cloudEvent), LAMBDA message :
    IF message.kind # "ok" THEN Failed(ErrorOfMessage(message))
    ELSE
      With(validateRequiredFields(message.data, <<field>>), LAMBDA validation :
        IF validation.kind # "ok" THEN validation ELSE rest))

\* The try block of driveScanner.
driveScannerTry(cloudEvent, external) ==
  ParseAndValidate(cloudEvent, KeyFolderId, ExternalCalls(external))

\* The try block of docProcessor.
docProcessorTry(cloudEvent, environment, external) ==
  ParseAndValidate(cloudEvent, KeyFileId,
    With(getProjectId(environment), LAMBDA projectId :
      IF projectId.kind # "ok" THEN Failed(projectId.error)
      ELSE ExternalCalls(external)))

\* The try block of textVisionProcessor.
textVisionProcessorTry(storageObjectData, external) ==
  With(parseStorageEvent(storageObjectData), LAMBDA storageEvent :
    IF storageEvent.kind # "ok" THEN Failed(storageEvent.error)
    ELSE
      With(Get(storageEvent.result, KeyContentType), LAMBDA contentType :
        IF Falsy(contentType) \/ contentType.s \notin SUPPORTED_MIME_TYPES
        THEN Failed(ErrorOf("Error",
                            "Unsupported file type for text extraction: "
                              \o TemplateText(contentType), <<>>))
        ELSE ExternalCalls(external)))

\* The try block of fileClassifier.
fileClassifierTry(environment, external) ==
  With(getProjectId(environment), LAMBDA projectId :
    IF projectId.kind # "ok" THEN Failed(projectId.error)
    ELSE IF \/ Falsy(Get(environment, CATEGORY_ROOT_FOLDER_ID))
            \/ Falsy(Get(environment, UNCATEGORIZED_FOLDER_ID))
    THEN Failed(ErrorOf("Error",
           "Missing required environment variables: CATEGORY_ROOT_FOLDER_ID or UNCATEGORIZED_FOLDER_ID",
           <<>>))
    ELSE ExternalCalls(external))

\* The try block of a stage's handler on its input.
StageTry(stage, cloudEvent, storageObjectData, environment, external) ==
  CASE stage = "driveScanner" -> driveScannerTry(cloudEvent, external)
    [] stage = "docProcessor" -> docProcessorTry(cloudEvent, environment, external)
    [] stage = "textVisionProcessor" -> textVisionProcessorTry(storageObjectData, external)
    [] stage = "fileClassifier" -> fileClassifierTry(environment, external)

\* The message a stage's catch block puts before the error's.
StagePrefix(stage) ==
  CASE stage = "driveScanner" -> "Drive document scanner failed: "
    [] stage = "docProcessor" -> "Document scan preparation failed: "
    [] stage = "textVisionProcessor" -> "Vision API processing failed: "
    [] stage = "fileClassifier" -> "File classification failed: "

\* The stages whose catch block rethrows the parser's two kinds of error:
\* the catch block of fileClassifier has no such test.
RethrowingStages == {"driveScanner", "docProcessor", "textVisionProcessor"}

\* The catch block of a stage's handler: what it throws for a caught error.
StageCatch(stage, error) ==
  IF /\ stage \in RethrowingStages
     /\ \/ InstanceOf(error, "ParameterParsingError")
        \/ InstanceOf(error, "ValidationError")
  THEN error
  ELSE ErrorOf("Error",
               StagePrefix(stage) \o createErrorResponse(error, stage).error, <<>>)

\* A stage's handler on its input: what it returns or throws.
StageHandler(stage, cloudEvent, storageObjectData, environment, external) ==
  With(StageTry(stage, cloudEvent, storageObjectData, environment, external),
       LAMBDA attempt :
    IF attempt.kind = "ok" THEN attempt
    ELSE Failed(StageCatch(stage, attempt.error)))

(***************************************************************************)
(* The prompt of classifyWithGemini (file-classifier/classification.ts)    *)
(***************************************************************************)

MAX_TEXT_LENGTH == 3000

\* s.substring(0, end) for 0 <= end
Substring(s, end) == SubSeq(s, 1, Min(end, Len(s)))

\* `${n}` for a natural number
RECURSIVE DecimalText(_)
DecimalText(n) ==
  IF n < 10 THEN <<48 + n>> ELSE DecimalText(n \div 10) \o <<48 + (n % 10)>>

\* lines.join('\n')
RECURSIVE JoinLines(_)
JoinLines(lines) ==
  IF lines = <<>> THEN <<>>
  ELSE IF Len(lines) = 1 THEN lines[1]
  ELSE lines[1] \o <<10>> \o JoinLines(Tail(lines))

\* categories.map((c, i) => `${i + 1}. ${c.name}`).join('\n')
CategoriesList(categories) ==
  JoinLines([i \in 1..Len(categories) |->
               DecimalText(i) \o Str(<<".", " ">>) \o categories[i].name])

\* The text put in the prompt with no limit of length.
WholeText(text) == text

\* text.substring(0, MAX_TEXT_LENGTH)
TruncatedText(text) == Substring(text, MAX_TEXT_LENGTH)

\* The prompt: the fixed template with its three holes filled.
Prompt(categories, text) ==
  [categoriesList |-> CategoriesList(categories),
   truncatedText  |-> TruncatedText(text),
   uncategorized  |-> UNCATEGORIZED]
NoPrompt == [categoriesList |-> <<>>, truncatedText |-> <<>>, uncategorized |-> <<>>]

(***************************************************************************)
(* driveScanner after its parameters (drive-scanner/index.ts)              *)
(***************************************************************************)

\* The token a response carries when page k comes next.
PageToken(k) == StrV(Str(<<"t">>) \o DecimalText(k))

\* Google Drive as the scanner sees it: whether the folder is found, and the
\* pages of its listing, each a sequence of file ids.
Drive(folder, pages) == [folder |-> folder, pages |-> pages]

\* The page a request asks for: the first without a token.
PageAsked(drive, pageToken) ==
  IF pageToken = Undefined THEN 1
  ELSE CHOOSE k \in 1..Len(drive.pages) : PageToken(k) = pageToken

\* response.data of drive.files.list({..., pageToken})
ListResponse(drive, pageToken) ==
  With(PageAsked(drive, pageToken), LAMBDA k :
    [files |-> drive.pages[k],
     nextPageToken |-> IF k < Len(drive.pages) THEN PageToken(k + 1) ELSE Undefined])

\* The token of the next request taken as absent whatever the response.
NextPageTokenDropped(data) == Undefined

\* response.data.nextPageToken || undefined
NextPageToken(data) ==
  IF Falsy(data.nextPageToken) THEN Undefined ELSE data.nextPageToken

\* A publish of the message of a file: pending, then "ok" or "failed".
Publish(fileId, status) == [fileId |-> fileId, status |-> status]

\* allFiles.map(async (file) => topic.publishMessage(...)): one publish per
\* file, all issued before any is awaited.
PublishPromises(allFiles) ==
  [i \in 1..Len(allFiles) |-> Publish(allFiles[i], "pending")]

\* What the scanner returns or throws.
ScanResult(folderId, allFiles, messageIds) ==
  [kind |-> "ok", error |-> ThrownValue(Undefined),
   message |-> "Successfully scanned folder " \o folderId \o " and found "
                 \o Text(DecimalText(Len(allFiles))) \o " document files",
   filesFound |-> Len(allFiles), files |-> allFiles,
   publishedMessages |-> Len(messageIds), topicName |-> "doc-process-trigger"]
ScanFailed(error) ==
  [kind |-> "failed", error |-> error, message |-> "", filesFound |-> 0,
   files |-> <<>>, publishedMessages |-> 0, topicName |-> ""]
NoScanOutcome == ScanFailed(ErrorOf("pending", "", <<>>))

PublishError == ErrorOf("Error", "publish failed", <<>>)

\* The publishes that succeeded, in the order of the files.
SelectOk(publishes) == SelectSeq(publishes, LAMBDA p : p.status = "ok")

\* The promises awaited one by one to their end, the failed ones left out of
\* the count.
AllSettled(folderId, allFiles, publishes) ==
  IF \E i \in 1..Len(publishes) : publishes[i].status = "pending"
  THEN NoScanOutcome
  ELSE ScanResult(folderId, allFiles, SelectOk(publishes))

\* await Promise.all(publishPromises), then the result: rejected as soon as
\* one publish has failed, fulfilled when all have succeeded, pending (no
\* outcome yet) otherwise.
PromiseAll(folderId, allFiles, publishes) ==
  IF \E i \in 1..Len(publishes) : publishes[i].status = "failed"
  THEN ScanFailed(StageCatch("driveScanner", PublishError))
  ELSE IF \E i \in 1..Len(publishes) : publishes[i].status = "pending"
  THEN NoScanOutcome
  ELSE ScanResult(folderId, allFiles, publishes)

(***************************************************************************)
(* What a handler does to the services it calls, and what it returns       *)
(***************************************************************************)

\* A call of a service with its argument.
Call(service, arg) == [service |-> service, arg |-> arg]

\* The answer of a service: a value, or a rejection with an error.
Answer(value) == [kind |-> "ok", error |-> ThrownValue(Undefined), value |-> value]
Rejection(error) == [kind |-> "rejected", error |-> error, value |-> Undefined]

\* What a handler returns or throws.
Returns(result) == [kind |-> "ok", error |-> ThrownValue(Undefined), result |-> result]
Throws(error) == [kind |-> "failed", error |-> error, result |-> Undefined]
NotReturned == Throws(ErrorOf("pending", "", <<>>))

\* The calls made and the outcome of a handler that ran to its end.
Run(calls, returned) == [calls |-> calls, returned |-> returned]

(***************************************************************************)
(* textFirebaseWriter (text-firebase-writer)                               *)
(***************************************************************************)

KeyMetadata           == Str(<<"m", "e", "t", "a", "d", "a", "t", "a">>)
KeyOriginalFileId     == Str(<<"o", "r", "i", "g", "i", "n", "a", "l", "F", "i", "l", "e", "I", "d">>)
KeyOriginalFileName   == Str(<<"o", "r", "i", "g", "i", "n", "a", "l", "F", "i", "l", "e", "N", "a", "m", "e">>)
KeyOriginalMimeType   == Str(<<"o", "r", "i", "g", "i", "n", "a", "l", "M", "i", "m", "e", "T", "y", "p", "e">>)
KeyContentHash        == Str(<<"c", "o", "n", "t", "e", "n", "t", "H", "a", "s", "h">>)
KeyProcessedAt        == Str(<<"p", "r", "o", "c", "e", "s", "s", "e", "d", "A", "t">>)
KeyResponses          == Str(<<"r", "e", "s", "p", "o", "n", "s", "e", "s">>)
KeyFullTextAnnotation == Str(<<"f", "u", "l", "l", "T", "e", "x", "t", "A", "n", "n", "o", "t", "a", "t", "i", "o", "n">>)
KeyText               == Str(<<"t", "e", "x", "t">>)
KeyPages              == Str(<<"p", "a", "g", "e", "s">>)
KeySize               == Str(<<"s", "i", "z", "e">>)
ApplicationJson       == Str(<<"a", "p", "p", "l", "i", "c", "a", "t", "i", "o", "n", "/", "j", "s", "o", "n">>)

\* The time of the call of new Date().toISOString().
Now == Str(<<"n", "o", "w">>)

\* a?.[i] for i counted from 0
ItemAt(a, i) == IF a.t = "array" /\ i < Len(a.kv) THEN a.kv[i + 1] ELSE Undefined

\* v || d
OrElse(v, d) == IF Falsy(v) THEN d ELSE v

\* String(v) for a string or undefined
StringOf(v) == IF v.t = "string" THEN v.s ELSE Str(<<"u", "n", "d", "e", "f", "i", "n", "e", "d">>)

\* s.trim()
RECURSIVE TrimStart(_)
TrimStart(s) == IF s # <<>> /\ IsSpace(Head(s)) THEN TrimStart(Tail(s)) ELSE s
RECURSIVE TrimEnd(_)
TrimEnd(s) ==
  IF s # <<>> /\ IsSpace(s[Len(s)]) THEN TrimEnd(SubSeq(s, 1, Len(s) - 1)) ELSE s
Trim(s) == TrimEnd(TrimStart(s))

\* a + b for numbers m * 10^e
NumAdd(a, b) ==
  Num(a.m * Pow(10, a.e - Min(a.e, b.e)) + b.m * Pow(10, b.e - Min(a.e, b.e)),
      Min(a.e, b.e))

\* total / count for count > 0, as the fraction it is
Quotient(total, count) == [num |-> total, den |-> count]

\* parseInt(text, 10) for a text of digits
ParseInt(digits) == DigitsVal(digits, 1, Len(digits) + 1, 0)

PageText(pageNumber, pageText, confidence) ==
  [pageNumber |-> pageNumber, text |-> pageText, confidence |-> confidence]

\* The state of the loop over the responses.
Aggregate(extractedText, totalConfidence, pageCount, pages) ==
  [extractedText |-> extractedText, totalConfidence |-> totalConfidence,
   pageCount |-> pageCount, pages |-> pages]

\* Every annotated response taken for a page, blank or not.
CountsAsPageAlways(pageText) == TRUE

\* if (pageText.trim())
CountsAsPage(pageText) == Trim(pageText) # <<>>

\* One turn of the loop over visionResult.responses.
AggregateResponse(acc, response) ==
  IF Falsy(Get(response, KeyFullTextAnnotation)) THEN acc
  ELSE
    With(OrElse(Get(Get(response, KeyFullTextAnnotation), KeyText), StrV(<<>>)).s,
         LAMBDA pageText :
    With(OrElse(Get(ItemAt(Get(Get(response, KeyFullTextAnnotation), KeyPages), 0),
                    KeyConfidence), Zero),
         LAMBDA confidence :
      IF ~CountsAsPage(pageText) THEN acc
      ELSE Aggregate(acc.extractedText \o pageText
                       \o (IF acc.pageCount > 0 THEN <<10>> ELSE <<>>),
                     NumAdd(acc.totalConfidence, confidence),
                     acc.pageCount + 1,
                     Append(acc.pages,
                            PageText(acc.pageCount + 1, pageText, confidence)))))

RECURSIVE AggregateFrom(_, _)
AggregateFrom(acc, responses) ==
  IF responses = <<>> THEN acc
  ELSE AggregateFrom(AggregateResponse(acc, Head(responses)), Tail(responses))

AggregateResponses(responses) ==
  AggregateFrom(Aggregate(<<>>, Zero, 0, <<>>), responses)

\* pageCount > 0 ? totalConfidence / pageCount : 0
OverallConfidence(acc) ==
  IF acc.pageCount > 0 THEN Quotient(acc.totalConfidence, acc.pageCount)
  ELSE Quotient(Zero, 1)

\* The size of the original document: 0 when its metadata cannot be read.
FileSize(original) ==
  IF original.kind # "ok" THEN 0
  ELSE ParseInt(StringOf(OrElse(Get(original.value, KeySize), StrV(Str(<<"0">>)))))

\* The services of textFirebaseWriter: the answers of getMetadata and
\* download of the result file (content is the value of JSON.parse, or its
\* failure), of getMetadata of the original document, and of collection.add.
WriterServices(metadata, content, original, added) ==
  [metadata |-> metadata, content |-> content, original |-> original, added |-> added]

\* The document written to the collection extracted_texts.
ExtractedText(bucket, objectName, metadata, acc, fileSize) ==
  [fileId |-> StringOf(Get(metadata, KeyOriginalFileId)),
   objectName |-> Str(<<"d", "o", "c", "u", "m", "e", "n", "t", "s", "/">>) \o StringOf(Get(metadata, KeyContentHash)),
   extractedText |-> acc.extractedText,
   confidence |-> OverallConfidence(acc),
   pages |-> acc.pages,
   extractedAt |-> OrElse(StrV(StringOf(OrElse(Get(metadata, KeyProcessedAt), StrV(<<>>)))),
                          StrV(Now)).s,
   mimeType |-> OrElse(StrV(StringOf(OrElse(Get(metadata, KeyOriginalMimeType), StrV(<<>>)))),
                       StrV(Str(<<"u", "n", "k", "n", "o", "w", "n">>))).s,
   fileName |-> StringOf(Get(metadata, KeyOriginalFileName)),
   fileSize |-> fileSize,
   contentHash |-> StringOf(Get(metadata, KeyContentHash)),
   visionResultPath |-> Str(<<"g", "s", ":", "/", "/">>) \o bucket \o Str(<<"/">>) \o objectName]

WriterResult(docId, doc) ==
  [message |-> "Successfully stored extracted text from " \o Text(doc.fileName),
   firestoreDocId |-> docId,
   textLength |-> Len(doc.extractedText),
   confidence |-> doc.confidence,
   pages |-> Len(doc.pages),
   originalFileName |-> doc.fileName]

\* The calls made before a run, and the run.
After(calls, run) == Run(calls \o run.calls, run.returned)

\* The try block from the document on: collection.add(extractedTextDoc).
textFirebaseWriterAdd(services, doc) ==
  Run(<<Call("storage.getMetadata", doc.objectName), Call("firestore.add", doc)>>,
      IF services.added.kind # "ok" THEN Throws(services.added.error)
      ELSE Returns(WriterResult(services.added.value, doc)))

\* The try block from the parsed result on.
textFirebaseWriterStore(bucket, objectName, metadata, visionResult, services, environment) ==
  IF \/ Falsy(Get(visionResult, KeyResponses))
     \/ Get(visionResult, KeyResponses).kv = <<>>
  THEN Run(<<>>, Throws(ErrorOf("Error", "No responses found in Vision API result", <<>>)))
  ELSE IF Falsy(OrElse(Get(environment, GOOGLE_CLOUD_PROJECT), Get(environment, PROJECT_ID)))
  THEN Run(<<>>, Throws(ErrorOf("Error", "PROJECT_ID environment variable not set", <<>>)))
  ELSE textFirebaseWriterAdd(services,
         ExtractedText(bucket, objectName, metadata,
                       AggregateResponses(Get(visionResult, KeyResponses).kv),
                       FileSize(services.original)))

\* The try block from file.getMetadata() on.
textFirebaseWriterRead(bucket, objectName, services, environment) ==
  After(<<Call("storage.getMetadata", objectName)>>,
    IF services.metadata.kind # "ok"
    THEN Run(<<>>, Throws(services.metadata.error))
    ELSE
      With(Get(services.metadata.value, KeyMetadata), LAMBDA metadata :
        IF \/ Falsy(Get(metadata, KeyOriginalFileId))
           \/ Falsy(Get(metadata, KeyOriginalFileName))
           \/ Falsy(Get(metadata, KeyContentHash))
        THEN Run(<<>>, Throws(ErrorOf("Error",
                         "Missing required metadata from Vision API result file", <<>>)))
        ELSE
          After(<<Call("storage.download", objectName)>>,
            IF services.content.kind # "ok"
            THEN Run(<<>>, Throws(services.content.error))
            ELSE textFirebaseWriterStore(bucket, objectName, metadata,
                                         services.content.value, services,
                                         environment))))

\* The try block of textFirebaseWriter.
textFirebaseWriterTry(eventData, services, environment) ==
  IF Falsy(eventData)
  THEN Run(<<>>, Throws(ErrorOf("Error", "No event data found in CloudEvent", <<>>)))
  ELSE IF Falsy(Get(eventData, KeyBucket)) \/ Falsy(Get(eventData, KeyName))
  THEN Run(<<>>, Throws(ErrorOf("Error",
                   "Missing required event data: bucket or objectName", <<>>)))
  ELSE IF Get(eventData, KeyContentType) # StrV(ApplicationJson)
  THEN Run(<<>>, Throws(ErrorOf("Error", "Unsupported file type: "
                   \o TemplateText(Get(eventData, KeyContentType)), <<>>)))
  ELSE textFirebaseWriterRead(Get(eventData, KeyBucket).s, Get(eventData, KeyName).s,
                              services, environment)

\* The catch block of textFirebaseWriter.
textFirebaseWriterCatch(error) ==
  ErrorOf("Error",
          "Firebase storage failed: "
            \o (IF error.isError THEN error.message ELSE "Unknown error occurred"),
          <<>>)

textFirebaseWriter(eventData, services, environment) ==
  With(textFirebaseWriterTry(eventData, services, environment), LAMBDA run :
    IF run.returned.kind = "ok" THEN run
    ELSE Run(run.calls, Throws(textFirebaseWriterCatch(run.returned.error))))

(***************************************************************************)
(* textVisionProcessor with the calls it makes                             *)
(***************************************************************************)

TextPlain == Str(<<"t", "e", "x", "t", "/", "p", "l", "a", "i", "n">>)

\* No file taken for a plain text.
IsPlainTextNever(contentType) == FALSE

\* contentType === 'text/plain'
IsPlainText(contentType) == contentType = StrV(TextPlain)

\* The services of textVisionProcessor: the answers of getMetadata and
\* download of the uploaded file, of save of the result file, of
\* asyncBatchAnnotateFiles (the operation's name) and of the operation's
\* promise (the responses).
VisionServices(metadata, content, saved, operation, annotated) ==
  [metadata |-> metadata, content |-> content, saved |-> saved,
   operation |-> operation, annotated |-> annotated]

\* The result structure written for a plain text.
TextResult(extractedText) ==
  Obj(<<Member(KeyResponses,
          Arr(<<Obj(<<Member(KeyFullTextAnnotation,
                  Obj(<<Member(KeyText, StrV(extractedText)),
                        Member(KeyPages, Arr(<<Obj(<<Member(KeyConfidence, One)>>)>>))>>))>>)>>))>>)

OutputBucket(projectId) == projectId \o Str(<<"-", "v", "i", "s", "i", "o", "n", "-", "r", "e", "s", "u", "l", "t", "s">>)
OutputPath(contentHash) == Str(<<"r", "e", "s", "u", "l", "t", "s", "/">>) \o contentHash \o Str(<<"/">>)

VisionResultOf(message, objectName, projectId, contentHash, operationId) ==
  [message |-> message, objectName |-> objectName,
   outputBucket |-> OutputBucket(projectId), outputPath |-> OutputPath(contentHash),
   operationId |-> operationId]

\* The branch of plain text: download, then save of the result.
textVisionProcessorText(objectName, metadata, projectId, services) ==
  After(<<Call("storage.download", objectName)>>,
    IF services.content.kind # "ok" THEN Run(<<>>, Throws(services.content.error))
    ELSE
      After(<<Call("storage.save",
                   [bucket |-> OutputBucket(projectId),
                    name |-> OutputPath(StringOf(Get(metadata, KeyContentHash)))
                               \o Str(<<"o", "u", "t", "p", "u", "t", "-", "1", "-", "t", "o", "-", "1", ".", "j", "s", "o", "n">>),
                    content |-> TextResult(services.content.value),
                    contentType |-> ApplicationJson,
                    metadata |->
                      Obj(<<Member(KeyOriginalFileId, Get(metadata, KeyOriginalFileId)),
                            Member(KeyOriginalFileName, Get(metadata, KeyOriginalFileName)),
                            Member(KeyOriginalMimeType, StrV(TextPlain)),
                            Member(KeyContentHash, Get(metadata, KeyContentHash)),
                            Member(KeyProcessedAt, StrV(Now))>>)])>>,
        IF services.saved.kind # "ok" THEN Run(<<>>, Throws(services.saved.error))
        ELSE Run(<<>>, Returns(VisionResultOf(
               "Successfully processed text file "
                 \o Text(StringOf(Get(metadata, KeyOriginalFileName))),
               objectName, projectId, StringOf(Get(metadata, KeyContentHash)),
               Str(<<"t", "e", "x", "t", "-", "d", "i", "r", "e", "c", "t", "-", "p", "r", "o", "c", "e", "s", "s", "i", "n", "g">>))))))

\* The branch of PDFs and images: the batch annotation and its operation.
textVisionProcessorVision(bucket, objectName, contentType, metadata, projectId, services) ==
  After(<<Call("vision.asyncBatchAnnotateFiles",
               [source |-> Str(<<"g", "s", ":", "/", "/">>) \o bucket \o Str(<<"/">>) \o objectName,
                mimeType |-> contentType,
                destination |-> Str(<<"g", "s", ":", "/", "/">>) \o OutputBucket(projectId) \o Str(<<"/">>)
                                  \o OutputPath(StringOf(Get(metadata, KeyContentHash)))])>>,
    IF services.operation.kind # "ok" THEN Run(<<>>, Throws(services.operation.error))
    ELSE
      After(<<Call("vision.operation.promise", services.operation.value)>>,
        IF services.annotated.kind # "ok" THEN Run(<<>>, Throws(services.annotated.error))
        ELSE IF \/ Falsy(Get(services.annotated.value, KeyResponses))
                \/ Get(services.annotated.value, KeyResponses).kv = <<>>
        THEN Run(<<>>, Throws(ErrorOf("Error", "No responses received from Vision API", <<>>)))
        ELSE Run(<<>>, Returns(VisionResultOf(
               "Successfully processed "
                 \o Text(StringOf(Get(metadata, KeyOriginalFileName)))
                 \o " with Vision API",
               objectName, projectId, StringOf(Get(metadata, KeyContentHash)),
               OrElse(services.operation.value, StrV(Str(<<"u", "n", "k", "n", "o", "w", "n">>))).s)))))

\* The try block from file.getMetadata() on.
textVisionProcessorFile(bucket, objectName, contentType, services, environment) ==
  After(<<Call("storage.getMetadata", objectName)>>,
    IF services.metadata.kind # "ok" THEN Run(<<>>, Throws(services.metadata.error))
    ELSE
      With(Get(services.metadata.value, KeyMetadata), LAMBDA metadata :
        IF \/ Falsy(Get(metadata, KeyOriginalFileId))
           \/ Falsy(Get(metadata, KeyOriginalFileName))
           \/ Falsy(Get(metadata, KeyContentHash))
        THEN Run(<<>>, Throws(ErrorOf("Error",
                         "Missing required metadata from uploaded file", <<>>)))
        ELSE IF getProjectId(environment).kind # "ok"
        THEN Run(<<>>, Throws(getProjectId(environment).error))
        ELSE IF IsPlainText(contentType)
        THEN textVisionProcessorText(objectName, metadata,
                                     getProjectId(environment).result.s, services)
        ELSE textVisionProcessorVision(bucket, objectName, contentType.s, metadata,
                                       getProjectId(environment).result.s, services)))

\* The try block of textVisionProcessor, with its calls.
textVisionProcessorCalls(storageObjectData, services, environment) ==
  With(parseStorageEvent(storageObjectData), LAMBDA storageEvent :
    IF storageEvent.kind # "ok" THEN Run(<<>>, Throws(storageEvent.error))
    ELSE
      With(Get(storageEvent.result, KeyContentType), LAMBDA contentType :
        IF Falsy(contentType) \/ contentType.s \notin SUPPORTED_MIME_TYPES
        THEN Run(<<>>, Throws(ErrorOf("Error",
                         "Unsupported file type for text extraction: "
                           \o TemplateText(contentType), <<>>)))
        ELSE textVisionProcessorFile(Get(storageEvent.result, KeyBucket).s,
                                     Get(storageEvent.result, KeyName).s,
                                     contentType, services, environment)))

\* textVisionProcessor: its calls, and what it returns or throws.
textVisionProcessor(storageObjectData, services, environment) ==
  With(textVisionProcessorCalls(storageObjectData, services, environment), LAMBDA run :
    IF run.returned.kind = "ok" THEN run
    ELSE Run(run.calls, Throws(StageCatch("textVisionProcessor", run.returned.error))))

(***************************************************************************)
(* fileClassifier with the calls it makes (file-classifier)                *)
(***************************************************************************)

KeyFileName      == Str(<<"f", "i", "l", "e", "N", "a", "m", "e">>)
KeyExtractedText == Str(<<"e", "x", "t", "r", "a", "c", "t", "e", "d", "T", "e", "x", "t">>)
KeyStringValue   == Str(<<"s", "t", "r", "i", "n", "g", "V", "a", "l", "u", "e">>)
KeyDocument      == Str(<<"d", "o", "c", "u", "m", "e", "n", "t">>)
KeyData          == Str(<<"d", "a", "t", "a">>)
KeyValue         == Str(<<"v", "a", "l", "u", "e">>)
KeyFields        == Str(<<"f", "i", "e", "l", "d", "s">>)
DocumentsMarker  == Str(<<"d", "o", "c", "u", "m", "e", "n", "t", "s", "/">>)

\* convertFirestoreFields for fields that are string values or plain values.
ConvertField(value) ==
  IF value.t = "object" /\ HasKey(value, KeyStringValue) THEN Get(value, KeyStringValue)
  ELSE value
convertFirestoreFields(fields) ==
  Obj([i \in 1..Len(fields.kv) |-> Member(fields.kv[i].k, ConvertField(fields.kv[i].v))])

\* parseDocumentData: the three fields required, or the failure.
parseDocumentData(documentSnapshot) ==
  IF \/ Falsy(Get(documentSnapshot, KeyFileId))
     \/ Falsy(Get(documentSnapshot, KeyFileName))
     \/ Falsy(Get(documentSnapshot, KeyExtractedText))
  THEN Rejection(ErrorOf("Error", "Missing required fields in Firestore document", <<>>))
  ELSE Answer(documentSnapshot)

\* The end of the first line of s from position i on.
RECURSIVE LineEnd(_, _)
LineEnd(s, i) ==
  IF i > Len(s) \/ s[i] \in {10, 13, 8232, 8233} THEN i - 1 ELSE LineEnd(s, i + 1)

\* getDocumentPathFromEvent: what follows the first 'documents/' that has a
\* character after it on its line, or the failure.
getDocumentPathFromEvent(event) ==
  With(Get(event, KeyDocument), LAMBDA document :
    With(IF Falsy(document) \/ document.t # "string" THEN {}
         ELSE {i \in Occurrences(document.s, DocumentsMarker) :
                 LineEnd(document.s, i + Len(DocumentsMarker)) >= i + Len(DocumentsMarker)},
         LAMBDA hits :
      IF hits = {}
      THEN Rejection(ErrorOf("Error", "Cannot determine document path from event", <<>>))
      ELSE Answer(SubSeq(document.s, SetMin(hits) + Len(DocumentsMarker),
                         LineEnd(document.s, SetMin(hits) + Len(DocumentsMarker))))))

\* The target taken from the classification alone.
TargetFolderIdOfClassification(classification, uncategorizedFolderId) ==
  classification.categoryFolderId

\* classification.categoryFolderId || uncategorizedFolderId
TargetFolderId(classification, uncategorizedFolderId) ==
  OrElse(classification.categoryFolderId, uncategorizedFolderId)

\* The services of fileClassifier: the answers of the listing of the
\* category folders, of generateContent (the response text), of
\* drive.files.get (the parents) and drive.files.update of the move, and of
\* the update of the record.
ClassifierServices(folders, generated, parents, moved, updated) ==
  [folders |-> folders, generated |-> generated, parents |-> parents,
   moved |-> moved, updated |-> updated]

\* The update of the record.
ClassificationUpdate(classification, targetFolderId) ==
  [category |-> classification.categoryName,
   categoryFolderId |-> targetFolderId,
   classificationConfidence |-> classification.confidence,
   classificationReasoning |-> classification.reasoning,
   classifiedAt |-> Now]

ClassifierResult(documentData, classification) ==
  [message |-> "Successfully classified and moved file: "
                 \o Text(Get(documentData, KeyFileName).s),
   category |-> classification.categoryName,
   confidence |-> classification.confidence,
   fileId |-> Get(documentData, KeyFileId),
   fileName |-> Get(documentData, KeyFileName)]

\* The parameters of fileClassifier: the environment, then the document of
\* the event; the document's data, or the failure.
fileClassifierParameters(event, environment) ==
  IF getProjectId(environment).kind # "ok"
  THEN Rejection(getProjectId(environment).error)
  ELSE IF \/ Falsy(Get(environment, CATEGORY_ROOT_FOLDER_ID))
          \/ Falsy(Get(environment, UNCATEGORIZED_FOLDER_ID))
  THEN Rejection(ErrorOf("Error",
         "Missing required environment variables: CATEGORY_ROOT_FOLDER_ID or UNCATEGORIZED_FOLDER_ID",
         <<>>))
  ELSE parseDocumentData(convertFirestoreFields(
         OrElse(Get(Get(Get(event, KeyData), KeyValue), KeyFields), Obj(<<>>))))

\* The catch block of fileClassifier.
fileClassifierCatch(error) == Throws(StageCatch("fileClassifier", error))

(***************************************************************************)
(* docProcessor with the calls it makes (doc-processor)                    *)
(***************************************************************************)

KeyId       == Str(<<"i", "d">>)
KeyMimeType == Str(<<"m", "i", "m", "e", "T", "y", "p", "e">>)
HexDigits   == Str(<<"0", "1", "2", "3", "4", "5", "6", "7", "8", "9", "a", "b", "c", "d", "e", "f">>)

\* createHash('sha256'), hash.update(chunk) and hash.digest('hex'), with the
\* digest reduced to 16 bits: a function of the bytes in the order they
\* came, whatever the chunks.
HashInit == 0
RECURSIVE HashUpdate(_, _)
HashUpdate(hash, chunk) ==
  IF chunk = <<>> THEN hash
  ELSE HashUpdate((hash * 31 + Head(chunk) + 1) % 65536, Tail(chunk))
HashDigestHex(hash) ==
  [i \in 1..4 |-> HexDigits[((hash \div Pow(16, 4 - i)) % 16) + 1]]

\* The hash after the chunks of a stream.
RECURSIVE HashOfChunks(_, _)
HashOfChunks(hash, chunks) ==
  IF chunks = <<>> THEN hash
  ELSE HashOfChunks(HashUpdate(hash, Head(chunks)), Tail(chunks))

\* Buffer.concat(chunks)
RECURSIVE Concat(_)
Concat(chunks) == IF chunks = <<>> THEN <<>> ELSE Head(chunks) \o Concat(Tail(chunks))

\* `documents/${contentHash}`
ObjectName(contentHash) == Str(<<"d", "o", "c", "u", "m", "e", "n", "t", "s", "/">>) \o contentHash

\* An object of the bucket.
StoredObject(name, size) == [name |-> name, size |-> size]
Exists(bucket, objectName) == \E o \in bucket : o.name = objectName

\* An upload whatever the existence check said.
NeedsUploadAlways(exists) == TRUE

\* if (exists) ... else (upload)
NeedsUpload(exists) == ~exists

\* A file of Google Drive: its metadata, and the chunks of its content.
DriveFile(metadata, chunks) == [metadata |-> metadata, chunks |-> chunks]

DocResult(file, exists, projectId, objectName, size) ==
  [message |-> IF exists
               THEN "File " \o Text(Get(file, KeyName).s)
                      \o " already exists in Cloud Storage, skipped upload"
               ELSE "Successfully copied file " \o Text(Get(file, KeyName).s)
                      \o " from Google Drive to Cloud Storage",
   fileId |-> Get(file, KeyId),
   fileName |-> Get(file, KeyName),
   bucketName |-> projectId \o Str(<<"-", "d", "o", "c", "u", "m", "e", "n", "t", "-", "s", "t", "o", "r", "a", "g", "e">>),
   objectName |-> objectName,
   contentType |-> OrElse(Get(file, KeyMimeType), StrV(Str(<<"a", "p", "p", "l", "i", "c", "a", "t", "i", "o", "n", "/", "o", "c", "t", "e", "t", "-", "s", "t", "r", "e", "a", "m">>))),
   size |-> size]

\* The catch block of docProcessor.
docProcessorCatch(error) == Throws(StageCatch("docProcessor", error))
(***************************************************************************)
(* The inputs the calls are checked on                                     *)
(***************************************************************************)

\* The longest payload text drawn character by character.
MaxTextLen == 3
\* The most members of a JSON record.
MaxFields == 2
\* The most candidate categories.
MaxCategories == 2

\* Sequences of up to n elements of a set.
SeqsUpTo(S, n) == UNION {[1..k -> S] : k \in 0..n}

\* The choice of leaving a key out of an object, or a variable unset.
Absent == [t |-> "absent", b |-> FALSE, m |-> 0, e |-> 0, s |-> <<>>, kv |-> <<>>]

\* The members of an object with, of the keys in names, those that choice
\* gives a value (Absent leaves the key out).
RECURSIVE MembersOf(_, _)
MembersOf(names, choice) ==
  IF names = <<>> THEN <<>>
  ELSE (IF choice[Head(names)] = Absent THEN <<>>
        ELSE <<Member(Head(names), choice[Head(names)])>>)
       \o MembersOf(Tail(names), choice)

\* The characters of the short payload texts: braces, the padding character
\* and base64 letters that decode to JSON punctuation and digits.
PayloadAlphabet ==
  {Ord("{"), Ord("}"), Ord("="), Ord("e"), Ord("3"), Ord("0"), Ord("M"), Ord("Q")}

ShortTexts == UNION {[1..n -> PayloadAlphabet] : n \in 0..MaxTextLen}

FieldNames == {Str(<<"a">>), Str(<<"n">>)}

FieldValues ==
  {Num(1, 0), Num(0 - 25, 0 - 1), StrV(Str(<<"x">>)),
   StrV(Str(<<"s", "a", "y", " ", "\"", "h", "i", "\"">>)),
   Bool(TRUE), Null, Arr(<<Member(<<>>, Num(0, 0))>>),
   Obj(<<Member(Str(<<"k">>), StrV(<<>>))>>)}

Members == {Member(k, v) : k \in FieldNames, v \in FieldValues}

\* The JSON records: up to MaxFields members, no key twice.
JsonRecords ==
  {Obj(kv) : kv \in UNION {
     {f \in [1..n -> Members] : \A i, j \in 1..n : i # j => f[i].k # f[j].k}
       : n \in 0..MaxFields}}

\* Payloads that are neither a string nor a record, and absent payloads.
OtherPayloads ==
  {Undefined, Null, Num(0, 0), Num(5, 0), Num(0 - 15, 0 - 1), Bool(TRUE), Bool(FALSE),
   Arr(<<>>), Arr(<<Member(<<>>, Num(1, 0))>>)}

Sources == {Undefined, StrV(<<>>), StrV(Str(<<"t", "e", "s", "t", "-", "s", "o", "u", "r", "c", "e">>))}

\* How an input was made of a value x: form is "none" (no input), "value" or
\* "text" (x itself, a string for "text"), "json" (the JSON text of x) or
\* "base64" (the base64 encoding of the JSON text of x); "throws" is the
\* payload whose accessor throws.
Given(form, x) == [form |-> form, x |-> x]

PayloadOf(g) ==
  CASE g.form = "json"   -> StrV(Stringify(g.x))
    [] g.form = "base64" -> StrV(EncodeBase64Text(Stringify(g.x)))
    [] OTHER             -> g.x

Givens ==
  {Given("value", x) : x \in OtherPayloads \cup JsonRecords}
    \cup {Given("text", StrV(t)) : t \in ShortTexts}
    \cup {Given("text", StrV(EncodeBase64Text(
            Str(<<"i", "n", "v", "a", "l", "i", "d", " ", "j", "s", "o", "n">>))))}
    \cup {Given(form, x) : form \in {"json", "base64"}, x \in JsonRecords}
    \cup {Given("throws", ThrowingAccessor)}

\* The folders of the category root, in the order of the listing (by name).
FolderPool ==
  << CategoryFolder(Str(<<"f", "1">>), Str(<<"I", "n", "v">>)),
     CategoryFolder(Str(<<"f", "3">>), Str(<<"I", "n", "v">>)),
     CategoryFolder(Str(<<"f", "2">>), Str(<<"T", "a", "x">>)),
     CategoryFolder(Str(<<"f", "4">>), UNCATEGORIZED) >>

\* The candidate lists: up to MaxCategories folders of the pool, in its order.
CategoryLists ==
  {[i \in 1..Len(idx) |-> FolderPool[idx[i]]] :
     idx \in UNION {{f \in [1..n -> 1..Len(FolderPool)] :
                       \A i, j \in 1..n : i < j => f[i] < f[j]}
                      : n \in 0..MaxCategories}}

ResponseCategories ==
  {Str(<<"I", "n", "v">>), Str(<<"i", "n", "v">>), Str(<<"T", "a", "x">>),
   Str(<<"Z", "z", "z">>), UNCATEGORIZED, <<>>}

ResponseConfidences == {Num(0 - 5, 0 - 1), Zero, Num(5, 0 - 1), One, Num(15, 0 - 1)}

\* The last reasoning quotes a code fence.
ResponseReasonings ==
  {Str(<<"r">>), Str(<<"n", "o", " ", "f", "i", "t">>),
   Str(<<"s", "e", "e", " ">>) \o FenceClose}

ResponseObject(category, confidence, reasoning) ==
  Obj(<<Member(KeyCategory, category), Member(KeyConfidence, confidence),
        Member(KeyReasoning, reasoning)>>)

Fenced(text) == FenceOpen \o <<10>> \o text \o <<10>> \o FenceClose

Chatty(text) == Str(<<"S", "u", "r", "e", ":", " ">>) \o text \o Str(<<" ", "d", "o", "n", "e">>)

\* The response made of a given: the JSON text of x alone ("bare"), in a
\* fenced code block ("fenced"), inside a sentence ("chatty"), or x itself;
\* "mistyped" is the JSON text of an object x in which category, confidence
\* or reasoning has another type or is absent; "braces before", "brace
\* after" and "twice" are the JSON text of x after an empty pair of braces,
\* before a closing brace, and written twice.
ResponseOf(g) ==
  CASE g.form = "bare"   -> StrV(Stringify(g.x))
    [] g.form = "fenced" -> StrV(Fenced(Stringify(g.x)))
    [] g.form = "chatty" -> StrV(Chatty(Stringify(g.x)))
    [] g.form = "mistyped" -> StrV(Stringify(g.x))
    [] g.form = "braces before" -> StrV(Str(<<"{", "}", " ">>) \o Stringify(g.x))
    [] g.form = "brace after"   -> StrV(Stringify(g.x) \o Str(<<" ", "}">>))
    [] g.form = "twice"         -> StrV(Stringify(g.x) \o <<10>> \o Stringify(g.x))
    [] OTHER             -> g.x

WellFormedObjects ==
  {ResponseObject(StrV(c), n, StrV(r)) :
     c \in ResponseCategories, n \in ResponseConfidences, r \in ResponseReasonings}

MalformedResponses ==
  { Str(<<"n", "o", " ", "o", "b", "j", "e", "c", "t", " ", "h", "e", "r", "e">>),
    Str(<<"{", "n", "o", "t", " ", "j", "s", "o", "n", "}">>),
    Str(<<"{", "}">>),
    Stringify(ResponseObject(StrV(Str(<<"I", "n", "v">>)), StrV(Str(<<"0", ".", "9">>)),
                             StrV(<<>>))),
    Stringify(ResponseObject(Num(1, 0), One, StrV(<<>>))),
    Stringify(ResponseObject(StrV(Str(<<"I", "n", "v">>)), One, Null)),
    Str(<<"{", "}", " ">>)
      \o Stringify(ResponseObject(StrV(Str(<<"I", "n", "v">>)), One, StrV(<<>>))),
    Fenced(Str(<<"n", "o", " ", "o", "b", "j", "e", "c", "t", " ", "h", "e", "r", "e">>)),
    Str(<<"{", "}", " ">>)
      \o Fenced(Str(<<"n", "o", " ", "o", "b", "j", "e", "c", "t", " ", "h", "e", "r", "e">>))
      \o Str(<<" ", "{", "}">>),
    Str(<<"}", " ", "t", "h", "e", "n", " ", "{">>) }

\* The objects with a category, a confidence and a reasoning of these
\* values (Absent leaves the member out), one of them at least not of the
\* type required.
MistypedObjects ==
  {Obj(MembersOf(<<KeyCategory, KeyConfidence, KeyReasoning>>,
                 (KeyCategory :> c) @@ (KeyConfidence :> n) @@ (KeyReasoning :> r))) :
     <<c, n, r>> \in
       {t \in {Absent, Null, Num(1, 0), StrV(Str(<<"I", "n", "v">>))}
               \X {Absent, Null, StrV(Str(<<"0", ".", "9">>)), Bool(TRUE), Num(9, 0 - 1)}
               \X {Absent, Null, Arr(<<>>), StrV(Str(<<"r">>))} :
          t[1].t # "string" \/ t[2].t # "number" \/ t[3].t # "string"}}

ResponseGivens ==
  {Given(form, x) : form \in {"bare", "fenced", "chatty"}, x \in WellFormedObjects}
    \cup {Given("text", StrV(t)) : t \in MalformedResponses \cup {<<>>}}
    \cup {Given("value", Undefined)}
    \cup {Given("mistyped", x) : x \in MistypedObjects}
    \cup {Given(form, x) : form \in {"braces before", "brace after", "twice"},
                           x \in WellFormedObjects}

\* The longest list of required fields.
MaxRequired == 2
\* The most entries of a request for environment variables.
MaxEnvVars == 2

\* validateRequiredFields: records over the fields a and b, and lists of
\* required fields among a, b and c.
DataFields == <<Str(<<"a">>), Str(<<"b">>)>>
RequiredFieldNames == {Str(<<"a">>), Str(<<"b">>), Str(<<"c">>)}
DataValues ==
  {Absent, Undefined, Null, StrV(<<>>), StrV(Str(<<"x">>)), Num(0, 0), Num(7, 0),
   Bool(FALSE)}
DataRecords ==
  {Obj(MembersOf(DataFields, choice)) :
     choice \in [{DataFields[i] : i \in 1..Len(DataFields)} -> DataValues]}
RequiredLists == SeqsUpTo(RequiredFieldNames, MaxRequired)

\* The process environments over a sequence of names: each variable is
\* unset, set to the empty string, or set to a value of its own.
ValueOf(name) == StrV(Str(<<"v", "-">>) \o name)
EnvironmentsOver(names) ==
  {Obj(MembersOf(names, choice)) :
     choice \in {c \in [{names[i] : i \in 1..Len(names)} ->
                          {Absent, StrV(<<>>)} \cup {ValueOf(names[i]) : i \in 1..Len(names)}] :
                   \A i \in 1..Len(names) :
                     c[names[i]] \in {Absent, StrV(<<>>), ValueOf(names[i])}}}

\* getEnvironmentVariables: requests for the names A, B and C, and
\* environments over A and B and their prefixed names.
NameA == Str(<<"A">>)
NameB == Str(<<"B">>)
NameC == Str(<<"C">>)
EnvVarLists ==
  {f \in SeqsUpTo({EnvVar(n, r) : n \in {NameA, NameB, NameC}, r \in BOOLEAN}, MaxEnvVars) :
     \A i, j \in 1..Len(f) : i # j => f[i].name # f[j].name}
VariableEnvironments ==
  EnvironmentsOver(<<NameA, GoogleCloudPrefix \o NameA, NameB, GoogleCloudPrefix \o NameB>>)

\* getProjectId: environments over its three names.
ProjectEnvironments == EnvironmentsOver(<<PROJECT_ID, GOOGLE_CLOUD_PROJECT, GCLOUD_PROJECT>>)

\* createErrorResponse: errors of the parser's classes and of others,
\* thrown values that are no errors, and context labels.
ErrorClasses ==
  {"ParameterParsingError", "ValidationError", "Error", "TypeError", "SyntaxError",
   "GaxiosError"}
ErrorMessages == {"", "boom", "Missing required fields: a"}
ThrownErrors ==
  {ErrorOf(class, message, <<>>) : class \in ErrorClasses, message \in ErrorMessages}
PlainValues ==
  {Undefined, Null, Num(42, 0), StrV(Str(<<"b", "o", "o", "m">>)), Bool(FALSE), Obj(<<>>),
   Obj(<<Member(Str(<<"m", "e", "s", "s", "a", "g", "e">>), StrV(Str(<<"b", "o", "o", "m">>)))>>), Arr(<<>>)}
ThrownValues == ThrownErrors \cup {ThrownValue(v) : v \in PlainValues}
Contexts == {"testContext", "ctx", "driveScanner", ""}

\* The stage handlers: events, storage objects, environments and outcomes
\* of the external calls.
StageRecord == Obj(<<Member(KeyFolderId, StrV(Str(<<"d", "1">>))), Member(KeyFileId, StrV(Str(<<"f", "1">>)))>>)
StageEvents ==
  {NoEvent, Event(Undefined, Undefined), Event(ThrowingAccessor, Undefined)}
    \cup {Event(payload, StrV(Str(<<"s", "r", "c">>))) :
            payload \in {StageRecord, Obj(<<>>),
                         Obj(<<Member(KeyFolderId, StrV(<<>>)), Member(KeyFileId, Null)>>),
                         StrV(EncodeBase64Text(Stringify(StageRecord))),
                         StrV(EncodeBase64Text(Stringify(Obj(<<>>)))),
                         StrV(EncodeBase64Text(Stringify(Null))),
                         StrV(Stringify(StageRecord))}}
StorageObjects ==
  {Undefined, Obj(<<>>),
   Obj(<<Member(KeyBucket, StrV(Str(<<"b", "k">>)))>>),
   Obj(<<Member(KeyBucket, StrV(Str(<<"b", "k">>))), Member(KeyName, StrV(Str(<<"o", "1">>)))>>),
   Obj(<<Member(KeyBucket, StrV(Str(<<"b", "k">>))), Member(KeyName, StrV(Str(<<"o", "1">>))),
         Member(KeyContentType, StrV(Str(<<"v", "i", "d", "e", "o", "/", "m", "p", "4">>)))>>),
   Obj(<<Member(KeyBucket, StrV(Str(<<"b", "k">>))), Member(KeyName, StrV(Str(<<"o", "1">>))),
         Member(KeyContentType, StrV(Str(<<"a", "p", "p", "l", "i", "c", "a", "t", "i", "o", "n", "/", "p", "d", "f">>)))>>)}
StageEnvironments ==
  {Obj(<<>>),
   Obj(<<Member(PROJECT_ID, ValueOf(PROJECT_ID))>>),
   Obj(<<Member(GCLOUD_PROJECT, ValueOf(GCLOUD_PROJECT)),
         Member(CATEGORY_ROOT_FOLDER_ID, ValueOf(CATEGORY_ROOT_FOLDER_ID))>>),
   Obj(<<Member(PROJECT_ID, ValueOf(PROJECT_ID)),
         Member(CATEGORY_ROOT_FOLDER_ID, ValueOf(CATEGORY_ROOT_FOLDER_ID)),
         Member(UNCATEGORIZED_FOLDER_ID, ValueOf(UNCATEGORIZED_FOLDER_ID))>>)}
Externals ==
  {Completed,
   Failed(ErrorOf("Error", "boom", <<>>)),
   Failed(ErrorOf("GaxiosError", "File not found", <<>>)),
   Failed(ThrownValue(StrV(Str(<<"b", "o", "o", "m">>))))}

(***************************************************************************)
(* The inputs of the handlers followed step by step                        *)
(***************************************************************************)

MaxShortText == 2
MaxOverflow == 2

\* A text of n characters in which no two neighbours are equal.
TextOfLength(n) == [i \in 1..n |-> 97 + (i % 7)]

\* The documents' texts: short ones, and ones around the limit of the prompt.
DocumentTexts ==
  {TextOfLength(n) :
     n \in (0..MaxShortText) \cup ((MAX_TEXT_LENGTH - 1)..(MAX_TEXT_LENGTH + MaxOverflow))}

\* What the model answers to a prompt.
PromptGivens ==
  {Given("bare", ResponseObject(StrV(Str(<<"I", "n", "v">>)), Num(9, 0 - 1), StrV(Str(<<"r">>)))),
   Given("fenced", ResponseObject(StrV(UNCATEGORIZED), One, StrV(Str(<<"n", "o", " ", "f", "i", "t">>)))),
   Given("text", StrV(Str(<<"n", "o", " ", "o", "b", "j", "e", "c", "t", " ", "h", "e", "r", "e">>))),
   Given("value", Undefined)}

MaxPages == 2
MaxPageFiles == 2

\* The id of file j of page k.
FileId(k, j) == Str(<<"f">>) \o DecimalText(k) \o DecimalText(j)

\* A listing of pages of these sizes.
PagesOfSizes(sizes) ==
  [k \in 1..Len(sizes) |-> [j \in 1..sizes[k] |-> FileId(k, j)]]

\* The folder is missing, or found with a listing of 1..MaxPages pages of
\* 0..MaxPageFiles files.
Drives ==
  {Drive("missing", <<<<>>>>)}
    \cup {Drive("found", PagesOfSizes(sizes)) :
            sizes \in UNION {[1..n -> 0..MaxPageFiles] : n \in 1..MaxPages}}

ScanEvents ==
  {NoEvent,
   Event(Obj(<<>>), StrV(Str(<<"s", "r", "c">>))),
   Event(StageRecord, StrV(Str(<<"s", "r", "c">>))),
   Event(StrV(EncodeBase64Text(Stringify(StageRecord))), Undefined)}

MaxResponses == 3

\* A response of the Vision API result: text and confidence Absent leave the
\* member out.
VisionResponse(pageText, confidence) ==
  Obj(<<Member(KeyFullTextAnnotation,
          Obj(MembersOf(<<KeyText, KeyPages>>,
                (KeyText :> pageText)
                  @@ (KeyPages :> IF confidence = Absent THEN Absent
                                  ELSE Arr(<<Obj(<<Member(KeyConfidence, confidence)>>)>>)))))>>)

\* The responses: one with no annotation, blank ones (no text, spaces and a
\* line end), and ones with text, with and without a confidence.
VisionResponses ==
  {Obj(<<>>),
   VisionResponse(Absent, Num(5, 0 - 1)),
   VisionResponse(StrV(<<32, 10>>), Num(95, 0 - 2)),
   VisionResponse(StrV(Str(<<"a">>)), Num(5, 0 - 1)),
   VisionResponse(StrV(Str(<<"a">>)), Absent),
   VisionResponse(StrV(Str(<<"a">>)), Num(95, 0 - 2)),
   VisionResponse(StrV(Str(<<" ", "b", " ">>)), Num(95, 0 - 2))}

VisionResult(responses) == Obj(<<Member(KeyResponses, Arr(responses))>>)

VisionResults == {VisionResult(rs) : rs \in SeqsUpTo(VisionResponses, MaxResponses)}

\* The custom metadata of a result file.
ResultMetadata(members) == Obj(<<Member(KeyMetadata, Obj(members))>>)

NominalEvent ==
  Obj(<<Member(KeyBucket, StrV(Str(<<"b", "k">>))), Member(KeyName, StrV(Str(<<"o", "1">>))),
        Member(KeyContentType, StrV(ApplicationJson))>>)
NominalMetadata ==
  Answer(ResultMetadata(<<Member(KeyOriginalFileId, StrV(Str(<<"f", "1">>))),
                          Member(KeyOriginalFileName, StrV(Str(<<"a", ".", "p", "d", "f">>))),
                          Member(KeyOriginalMimeType, StrV(Str(<<"a", "p", "p", "l", "i", "c", "a", "t", "i", "o", "n", "/", "p", "d", "f">>))),
                          Member(KeyContentHash, StrV(Str(<<"a", "b", "c">>))),
                          Member(KeyProcessedAt, StrV(Str(<<"t", "h", "e", "n">>)))>>))
NominalOriginal == Answer(Obj(<<Member(KeySize, StrV(Str(<<"1", "0", "2", "4">>)))>>))
NominalAdded == Answer(Str(<<"d", "o", "c", "1", "2", "3">>))
NominalEnvironment == Obj(<<Member(PROJECT_ID, StrV(Str(<<"p", "1">>)))>>)

WriterEvents ==
  {Undefined,
   Obj(<<Member(KeyBucket, StrV(Str(<<"b", "k">>)))>>),
   Obj(<<Member(KeyBucket, StrV(Str(<<"b", "k">>))), Member(KeyName, StrV(Str(<<"o", "1">>)))>>),
   Obj(<<Member(KeyBucket, StrV(Str(<<"b", "k">>))), Member(KeyName, StrV(Str(<<"o", "1">>))),
         Member(KeyContentType, StrV(Str(<<"t", "e", "x", "t", "/", "p", "l", "a", "i", "n">>)))>>)}

ServiceError == ErrorOf("Error", "boom", <<>>)

WriterMetadata ==
  {NominalMetadata, Rejection(ServiceError), Answer(Obj(<<>>)),
   Answer(ResultMetadata(<<Member(KeyOriginalFileId, StrV(Str(<<"f", "1">>))),
                           Member(KeyOriginalFileName, StrV(Str(<<"a", ".", "p", "d", "f">>)))>>)),
   Answer(ResultMetadata(<<Member(KeyOriginalFileId, StrV(Str(<<"f", "1">>))),
                           Member(KeyOriginalFileName, StrV(Str(<<"a", ".", "p", "d", "f">>))),
                           Member(KeyContentHash, StrV(Str(<<"a", "b", "c">>)))>>))}

WriterContents ==
  {Rejection(ServiceError),
   Rejection(ErrorOf("SyntaxError", "JSON.parse", <<>>)),
   Answer(Obj(<<>>)),
   Answer(VisionResult(<<>>)),
   Answer(VisionResult(<<VisionResponse(StrV(Str(<<"a">>)), Num(95, 0 - 2)),
                         VisionResponse(StrV(Str(<<" ", "b", " ">>)), Num(5, 0 - 1))>>))}

WriterOriginals == {NominalOriginal, Answer(Obj(<<>>)), Rejection(ServiceError)}

WriterAddeds == {NominalAdded, Rejection(ThrownValue(StrV(Str(<<"b", "o", "o", "m">>))))}

WriterEnvironments ==
  {Obj(<<>>), NominalEnvironment,
   Obj(<<Member(GOOGLE_CLOUD_PROJECT, StrV(Str(<<"p", "2">>)))>>)}

\* The inputs of textFirebaseWriter: every Vision result with the rest as
\* in the tests, every event, and every combination of answers and
\* environments for the event of the tests.
WriterInputs ==
  {<<NominalEvent,
     WriterServices(NominalMetadata, Answer(r), NominalOriginal, NominalAdded),
     NominalEnvironment>> : r \in VisionResults}
    \cup {<<e, WriterServices(NominalMetadata, Rejection(ServiceError),
                              NominalOriginal, NominalAdded),
            NominalEnvironment>> : e \in WriterEvents}
    \cup {<<NominalEvent, WriterServices(m, c, o, a), env>> :
            m \in WriterMetadata, c \in WriterContents, o \in WriterOriginals,
            a \in WriterAddeds, env \in WriterEnvironments}

\* The storage events of textVisionProcessor: the ones of the stages, and
\* plain texts, an image, and a plain text with a charset.
VisionObjects ==
  StorageObjects
    \cup {Obj(<<Member(KeyBucket, StrV(Str(<<"b", "k">>))), Member(KeyName, StrV(Str(<<"o", "1">>))),
                Member(KeyContentType, StrV(t))>>) :
            t \in {TextPlain, Str(<<"i", "m", "a", "g", "e", "/", "p", "n", "g">>), Str(<<"t", "e", "x", "t", "/", "p", "l", "a", "i", "n", ";", " ", "c", "h", "a", "r", "s", "e", "t", "=", "u", "t", "f", "-", "8">>), <<>>}}

UploadMetadata ==
  {Answer(ResultMetadata(<<Member(KeyOriginalFileId, StrV(Str(<<"f", "1">>))),
                           Member(KeyOriginalFileName, StrV(Str(<<"a", ".", "t", "x", "t">>))),
                           Member(KeyContentHash, StrV(Str(<<"a", "b", "c">>)))>>)),
   Answer(ResultMetadata(<<Member(KeyOriginalFileId, StrV(Str(<<"f", "1">>))),
                           Member(KeyOriginalFileName, StrV(Str(<<"a", ".", "t", "x", "t">>)))>>)),
   Rejection(ServiceError)}

VisionServicesSet ==
  {VisionServices(m, c, s, o, a) :
     m \in UploadMetadata,
     c \in {Answer(Str(<<"H", "e", "l", "l", "o">>)), Rejection(ServiceError)},
     s \in {Answer(Undefined), Rejection(ServiceError)},
     o \in {Answer(StrV(Str(<<"o", "p", "1">>))), Answer(Undefined), Rejection(ServiceError)},
     a \in {Answer(VisionResult(<<VisionResponse(StrV(Str(<<"a">>)), Num(95, 0 - 2))>>)),
            Answer(VisionResult(<<>>)), Rejection(ServiceError)}}

\* The events of fileClassifier: a record created, with its path or not.
FirestoreEvent(fields, document) ==
  Obj(MembersOf(<<KeyData, KeyDocument>>,
        (KeyData :> Obj(<<Member(KeyValue, Obj(<<Member(KeyFields, fields)>>))>>))
          @@ (KeyDocument :> document)))

StringValue(text) == Obj(<<Member(KeyStringValue, StrV(text))>>)

NominalFields ==
  Obj(<<Member(KeyFileId, StringValue(Str(<<"f", "i", "l", "e", "-", "1">>))),
        Member(KeyFileName, StringValue(Str(<<"a", ".", "p", "d", "f">>))),
        Member(KeyExtractedText, StringValue(Str(<<"a", "n", " ", "i", "n", "v", "o", "i", "c", "e">>)))>>)
NominalDocument ==
  StrV(Str(<<"p", "r", "o", "j", "e", "c", "t", "s", "/", "p", "/", "d", "a", "t", "a", "b", "a", "s", "e", "s", "/", "d", "/", "d", "o", "c", "u", "m", "e", "n", "t", "s", "/", "e", "x", "t", "r", "a", "c", "t", "e", "d", "_", "t", "e", "x", "t", "s", "/", "d", "o", "c", "1">>))

FirestoreEvents ==
  {FirestoreEvent(NominalFields, NominalDocument),
   FirestoreEvent(NominalFields, Absent),
   FirestoreEvent(NominalFields, StrV(Str(<<"p", "r", "o", "j", "e", "c", "t", "s", "/", "p", "/", "d", "o", "c", "u", "m", "e", "n", "t", "s", "/">>))),
   FirestoreEvent(Obj(<<Member(KeyFileId, StringValue(Str(<<"f", "i", "l", "e", "-", "1">>))),
                        Member(KeyFileName, StringValue(Str(<<"a", ".", "p", "d", "f">>))),
                        Member(KeyExtractedText, StringValue(<<>>))>>),
                  NominalDocument),
   Obj(<<Member(KeyData, Obj(<<>>)), Member(KeyDocument, NominalDocument)>>)}

ClassifierEnvironment ==
  Obj(<<Member(PROJECT_ID, StrV(Str(<<"p", "1">>))),
        Member(CATEGORY_ROOT_FOLDER_ID, StrV(Str(<<"r", "o", "o", "t">>))),
        Member(UNCATEGORIZED_FOLDER_ID, StrV(Str(<<"u", "n", "c">>)))>>)

ClassifierEnvironments ==
  {ClassifierEnvironment,
   Obj(<<>>),
   Obj(<<Member(PROJECT_ID, StrV(Str(<<"p", "1">>))),
         Member(CATEGORY_ROOT_FOLDER_ID, StrV(Str(<<"r", "o", "o", "t">>)))>>),
   Obj(<<Member(PROJECT_ID, StrV(Str(<<"p", "1">>))),
         Member(CATEGORY_ROOT_FOLDER_ID, StrV(Str(<<"r", "o", "o", "t">>))),
         Member(UNCATEGORIZED_FOLDER_ID, StrV(<<>>))>>)}

\* What the model answers: a category that has a folder, the sentinel, a
\* category that has none, no object, no text.
ClassifierResponses ==
  {StrV(Stringify(ResponseObject(StrV(Str(<<"I", "n", "v">>)), Num(9, 0 - 1), StrV(Str(<<"r">>))))),
   StrV(Fenced(Stringify(ResponseObject(StrV(Str(<<"T", "a", "x">>)), One, StrV(Str(<<"r">>)))))),
   StrV(Stringify(ResponseObject(StrV(UNCATEGORIZED), Num(5, 0 - 1), StrV(Str(<<"n", "o", " ", "f", "i", "t">>))))),
   StrV(Stringify(ResponseObject(StrV(Str(<<"Z", "z", "z">>)), One, StrV(Str(<<"r">>))))),
   StrV(Str(<<"n", "o", " ", "o", "b", "j", "e", "c", "t", " ", "h", "e", "r", "e">>)),
   Undefined}

ClassifierServicesSet ==
  {ClassifierServices(f, g, p, m, u) :
     f \in {Answer(<<>>), Answer(<<FolderPool[1], FolderPool[3]>>), Rejection(ServiceError)},
     g \in {Answer(r) : r \in ClassifierResponses} \cup {Rejection(ServiceError)},
     p \in {Answer(<<Str(<<"p", "1">>), Str(<<"p", "2">>)>>), Rejection(ServiceError)},
     m \in {Answer(Undefined),
            Rejection(ErrorOf("Error", "Permission denied", <<>>))},
     u \in {Answer(Undefined), Rejection(ServiceError)}}

NominalClassifierServices ==
  ClassifierServices(Answer(<<FolderPool[1], FolderPool[3]>>),
                     Answer(StrV(Stringify(ResponseObject(StrV(Str(<<"I", "n", "v">>)), Num(9, 0 - 1),
                                                          StrV(Str(<<"r">>)))))),
                     Answer(<<Str(<<"p", "1">>), Str(<<"p", "2">>)>>), Answer(Undefined), Answer(Undefined))

\* The inputs of fileClassifier: every answer of the services for the event
\* and the environment of the tests, and every event and environment.
ClassifierInputs ==
  {<<FirestoreEvent(NominalFields, NominalDocument), s, ClassifierEnvironment>> :
     s \in ClassifierServicesSet}
    \cup {<<e, NominalClassifierServices, env>> :
            e \in FirestoreEvents, env \in ClassifierEnvironments}
    \cup {<<e, s, ClassifierEnvironment>> :
            e \in FirestoreEvents,
            s \in {ClassifierServices(Answer(<<FolderPool[1]>>), Answer(r),
                                      Answer(<<Str(<<"p", "1">>)>>), Answer(Undefined),
                                      Answer(Undefined)) : r \in ClassifierResponses}}

MaxInvocations == 2

\* The files of Google Drive: two with the same content in other chunks, one
\* with another content, one with no name; any other file is not found.
DriveFileOf(id, name, chunks) ==
  DriveFile(Obj(MembersOf(<<KeyId, KeyName, KeyMimeType>>,
                  (KeyId :> StrV(id)) @@ (KeyName :> name)
                    @@ (KeyMimeType :> StrV(Str(<<"a", "p", "p", "l", "i", "c", "a", "t", "i", "o", "n", "/", "p", "d", "f">>))))),
            chunks)
DriveFiles ==
  (Str(<<"f", "1">>) :> DriveFileOf(Str(<<"f", "1">>), StrV(Str(<<"a", ".", "p", "d", "f">>)), <<<<1, 2>>, <<3>>>>))
    @@ (Str(<<"f", "2">>) :> DriveFileOf(Str(<<"f", "2">>), StrV(Str(<<"b", ".", "p", "d", "f">>)), <<<<1>>, <<2, 3>>>>))
    @@ (Str(<<"f", "3">>) :> DriveFileOf(Str(<<"f", "3">>), StrV(Str(<<"c", ".", "p", "d", "f">>)), <<<<3, 2, 1>>>>))
    @@ (Str(<<"f", "4">>) :> DriveFileOf(Str(<<"f", "4">>), Absent, <<<<1>>>>))

\* The message of a file.
DocEvent(fileId) ==
  Event(StrV(EncodeBase64Text(Stringify(Obj(<<Member(KeyFileId, StrV(fileId))>>)))),
        Undefined)

DocEvents ==
  {DocEvent(id) : id \in {Str(<<"f", "1">>), Str(<<"f", "2">>), Str(<<"f", "3">>), Str(<<"f", "4">>), Str(<<"f", "9">>)}}
    \cup {Event(Obj(<<>>), Undefined)}

\* The bucket before: empty, or with the object of the content of f1.
Buckets ==
  {{}, {StoredObject(ObjectName(HashDigestHex(HashUpdate(HashInit, <<1, 2, 3>>))), 3)}}
(***************************************************************************)
(* The calls as a state machine                                            *)
(***************************************************************************)

VARIABLES
  op,               \* the function called
  pc,               \* "call" before it has run, "done" after
  cloudEvent,       \* parsePubSubEvent, the handlers: the event
  given,            \* how the payload, or the response, was made
  message,          \* parsePubSubEvent: its outcome
  response,         \* classifyWithGemini: the model's response text
  categories,       \* classifyWithGemini: the candidate categories
  parsed,           \* classifyWithGemini: the outcome of parseGeminiResponse
  classification,   \* classifyWithGemini: its outcome
  data,             \* validateRequiredFields: the record
  requiredFields,   \* validateRequiredFields: the required fields
  validation,       \* validateRequiredFields: its outcome
  environment,      \* process.env
  envVars,          \* getEnvironmentVariables: the entries requested
  resolution,       \* getEnvironmentVariables, getProjectId: the outcome
  error,            \* createErrorResponse: the thrown value
  context,          \* createErrorResponse: the context label
  errorResponse,    \* createErrorResponse: its result
  stage,            \* the handlers: which one runs
  storageObjectData, \* textVisionProcessor: the event's data
  external,         \* the handlers: the outcome of the external calls
  attempt,          \* the handlers: the outcome of the try block
  outcome,          \* the handlers: what the handler returns or throws
  text,             \* classifyWithGemini: the document's text
  prompt,           \* classifyWithGemini: the prompt sent to the model
  drive,            \* driveScanner: Google Drive's folder and listing
  folderId,         \* driveScanner: the folder asked for
  allFiles,         \* driveScanner: the files listed so far
  nextPageToken,    \* driveScanner: the token of the next request
  requests,         \* driveScanner: the page tokens of the requests made
  publishes,        \* driveScanner: the publishes issued
  scanOutcome,      \* driveScanner: what it returns or throws
  services,         \* the handlers: what the services they call answer
  calls,            \* the handlers: the calls of services made so far
  returned,         \* the handlers: what the handler returned or threw
  firestoreEvent,   \* fileClassifier: the event
  documentData,     \* fileClassifier: the document of the event
  targetFolderId,   \* fileClassifier: the folder the file is moved to
  queue,            \* docProcessor: the events still to process
  bucket,           \* docProcessor: the objects of the bucket
  pendingUploads,   \* docProcessor: the objects written and not yet stored
  file,             \* docProcessor: the metadata of the file
  fileBuffer,       \* docProcessor: the content downloaded
  contentHash,      \* docProcessor: the digest of the content
  objectName,       \* docProcessor: the name of the object
  exists,           \* docProcessor: what the existence check said
  results           \* docProcessor: what the invocations returned or threw

pubSubVars   == <<cloudEvent, given, message>>
classifyVars == <<response, categories, parsed, classification>>
validateVars == <<data, requiredFields, validation>>
envVarsVars  == <<environment, envVars, resolution>>
errorVars    == <<error, context, errorResponse>>
stageVars    == <<stage, storageObjectData, external, attempt, outcome>>
promptVars   == <<text, prompt>>
scanVars     == <<drive, folderId, allFiles, nextPageToken, requests, publishes, scanOutcome>>
serviceVars  == <<services, calls, returned>>
moveVars     == <<firestoreEvent, documentData, targetFolderId>>
docVars      == <<queue, bucket, pendingUploads, file, fileBuffer, contentHash, objectName, exists, results>>

\* The variables of the handlers followed step by step.
handlerVars == <<promptVars, scanVars, serviceVars, moveVars, docVars>>

vars == <<op, pc, pubSubVars, classifyVars, validateVars, envVarsVars, errorVars,
          stageVars, handlerVars>>

NoMessage        == Thrown("pending", "", "none")
NoParsed         == ParseError("pending", "")
NoClassification == ClassifyError("pending", "")
NoValidation     == Failed(ErrorOf("pending", "", <<>>))
NoResolution     == Unresolved(ErrorOf("pending", "", <<>>))
NoErrorResponse  == ErrorResponse("", "", "pending")
NoOutcome        == Failed(ErrorOf("pending", "", <<>>))

\* The variables of the calls that are not made.
UnusedClassify ==
  /\ response = Undefined
  /\ categories = <<>>
  /\ parsed = NoParsed
  /\ classification = NoClassification
UnusedValidate ==
  /\ data = Undefined
  /\ requiredFields = <<>>
  /\ validation = NoValidation
UnusedEnvironment ==
  /\ environment = Obj(<<>>)
  /\ envVars = <<>>
  /\ resolution = NoResolution
UnusedError ==
  /\ error = ThrownValue(Undefined)
  /\ context = ""
  /\ errorResponse = NoErrorResponse
UnusedStage ==
  /\ stage = "none"
  /\ storageObjectData = Undefined
  /\ external = Completed
  /\ attempt = NoOutcome
  /\ outcome = NoOutcome
UnusedPubSub ==
  /\ cloudEvent = NoEvent
  /\ given = Given("none", Undefined)
  /\ message = NoMessage
UnusedPrompt ==
  /\ text = <<>>
  /\ prompt = NoPrompt
UnusedScan ==
  /\ drive = Drive("found", <<<<>>>>)
  /\ folderId = Undefined
  /\ allFiles = <<>>
  /\ nextPageToken = Undefined
  /\ requests = <<>>
  /\ publishes = <<>>
  /\ scanOutcome = NoScanOutcome
UnusedServices ==
  /\ services = Undefined
  /\ calls = <<>>
  /\ returned = NotReturned
UnusedMove ==
  /\ firestoreEvent = Undefined
  /\ documentData = Undefined
  /\ targetFolderId = Undefined
UnusedDoc ==
  /\ queue = <<>>
  /\ bucket = {}
  /\ pendingUploads = {}
  /\ file = Undefined
  /\ fileBuffer = <<>>
  /\ contentHash = <<>>
  /\ objectName = <<>>
  /\ exists = FALSE
  /\ results = <<>>
UnusedHandlers ==
  /\ UnusedPrompt
  /\ UnusedScan
  /\ UnusedServices
  /\ UnusedMove
  /\ UnusedDoc

InitPubSub ==
  /\ op = "parsePubSubEvent"
  /\ pc = "call"
  /\ \/ /\ given = Given("none", Undefined)
        /\ cloudEvent = NoEvent
     \/ \E g \in Givens, source \in Sources :
          /\ given = g
          /\ cloudEvent = Event(PayloadOf(g), source)
  /\ message = NoMessage
  /\ UnusedClassify /\ UnusedValidate /\ UnusedEnvironment /\ UnusedError /\ UnusedStage
  /\ UnusedHandlers

InitClassify ==
  /\ op = "classifyWithGemini"
  /\ pc = "call"
  /\ cloudEvent = NoEvent
  /\ \E g \in ResponseGivens :
       /\ given = g
       /\ response = ResponseOf(g)
  /\ message = NoMessage
  /\ categories \in CategoryLists
  /\ parsed = NoParsed
  /\ classification = NoClassification
  /\ UnusedValidate /\ UnusedEnvironment /\ UnusedError /\ UnusedStage
  /\ UnusedHandlers

InitValidate ==
  /\ op = "validateRequiredFields"
  /\ pc = "call"
  /\ data \in DataRecords
  /\ requiredFields \in RequiredLists
  /\ validation = NoValidation
  /\ UnusedPubSub /\ UnusedClassify /\ UnusedEnvironment /\ UnusedError /\ UnusedStage
  /\ UnusedHandlers

InitEnvironment ==
  /\ pc = "call"
  /\ \/ /\ op = "getEnvironmentVariables"
        /\ environment \in VariableEnvironments
        /\ envVars \in EnvVarLists
     \/ /\ op = "getProjectId"
        /\ environment \in ProjectEnvironments
        /\ envVars = <<>>
  /\ resolution = NoResolution
  /\ UnusedPubSub /\ UnusedClassify /\ UnusedValidate /\ UnusedError /\ UnusedStage
  /\ UnusedHandlers

InitError ==
  /\ op = "createErrorResponse"
  /\ pc = "call"
  /\ error \in ThrownValues
  /\ context \in Contexts
  /\ errorResponse = NoErrorResponse
  /\ UnusedPubSub /\ UnusedClassify /\ UnusedValidate /\ UnusedEnvironment /\ UnusedStage
  /\ UnusedHandlers

\* A handler's input: its event (a Pub/Sub event or storage data), the
\* environment it reads, and what the external calls will do.
InitStage ==
  /\ op = "stage"
  /\ pc = "call"
  /\ stage \in Stages
  /\ IF stage \in {"driveScanner", "docProcessor"}
     THEN cloudEvent \in StageEvents ELSE cloudEvent = NoEvent
  /\ IF stage = "textVisionProcessor"
     THEN storageObjectData \in StorageObjects ELSE storageObjectData = Undefined
  /\ IF stage \in {"docProcessor", "fileClassifier"}
     THEN environment \in StageEnvironments ELSE environment = Obj(<<>>)
  /\ external \in Externals
  /\ given = Given("none", Undefined)
  /\ message = NoMessage
  /\ envVars = <<>>
  /\ resolution = NoResolution
  /\ attempt = NoOutcome
  /\ outcome = NoOutcome
  /\ UnusedClassify /\ UnusedValidate /\ UnusedError
  /\ UnusedHandlers

\* A call of parsePubSubEvent(cloudEvent).
ParsePubSubEvent ==
  /\ op = "parsePubSubEvent"
  /\ pc = "call"
  /\ message' = parsePubSubEvent(cloudEvent)
  /\ pc' = "done"
  /\ UNCHANGED <<op, cloudEvent, given, classifyVars, validateVars, envVarsVars,
                 errorVars, stageVars, handlerVars>>

\* A call of classifyWithGemini, from the model's response on.
ClassifyWithGemini ==
  /\ op = "classifyWithGemini"
  /\ pc = "call"
  /\ parsed' = IF Falsy(response) THEN NoParsed ELSE parseGeminiResponse(response.s)
  /\ classification' = classifyWithGemini(response, categories)
  /\ pc' = "done"
  /\ UNCHANGED <<op, pubSubVars, response, categories, validateVars, envVarsVars,
                 errorVars, stageVars, handlerVars>>

\* A call of validateRequiredFields(data, requiredFields).
ValidateRequiredFields ==
  /\ op = "validateRequiredFields"
  /\ pc = "call"
  /\ validation' = validateRequiredFields(data, requiredFields)
  /\ pc' = "done"
  /\ UNCHANGED <<op, pubSubVars, classifyVars, data, requiredFields, envVarsVars,
                 errorVars, stageVars, handlerVars>>

\* A call of getEnvironmentVariables(envVars) in the process environment.
GetEnvironmentVariables ==
  /\ op = "getEnvironmentVariables"
  /\ pc = "call"
  /\ resolution' = getEnvironmentVariables(envVars, environment)
  /\ pc' = "done"
  /\ UNCHANGED <<op, pubSubVars, classifyVars, validateVars, environment, envVars,
                 errorVars, stageVars, handlerVars>>

\* A call of getProjectId() in the process environment.
GetProjectId ==
  /\ op = "getProjectId"
  /\ pc = "call"
  /\ resolution' = getProjectId(environment)
  /\ pc' = "done"
  /\ UNCHANGED <<op, pubSubVars, classifyVars, validateVars, environment, envVars,
                 errorVars, stageVars, handlerVars>>

\* A call of createErrorResponse(error, context).
CreateErrorResponse ==
  /\ op = "createErrorResponse"
  /\ pc = "call"
  /\ errorResponse' = createErrorResponse(error, context)
  /\ pc' = "done"
  /\ UNCHANGED <<op, pubSubVars, classifyVars, validateVars, envVarsVars, error,
                 context, stageVars, handlerVars>>

\* An invocation of a stage's handler.
HandleEvent ==
  /\ op = "stage"
  /\ pc = "call"
  /\ attempt' = StageTry(stage, cloudEvent, storageObjectData, environment, external)
  /\ outcome' = StageHandler(stage, cloudEvent, storageObjectData, environment, external)
  /\ pc' = "done"
  /\ UNCHANGED <<op, pubSubVars, classifyVars, validateVars, envVarsVars, errorVars,
                 stage, storageObjectData, external, handlerVars>>

SpecPubSub == InitPubSub /\ [][ParsePubSubEvent]_vars

SpecClassify == InitClassify /\ [][ClassifyWithGemini]_vars

SpecValidate == InitValidate /\ [][ValidateRequiredFields]_vars

SpecEnvironment == InitEnvironment /\ [][GetEnvironmentVariables \/ GetProjectId]_vars

SpecError == InitError /\ [][CreateErrorResponse]_vars

SpecStage == InitStage /\ [][HandleEvent]_vars

(***************************************************************************)
(* classifyWithGemini from the document's text on                          *)
(***************************************************************************)

InitPrompt ==
  /\ op = "classifyText"
  /\ pc = "call"
  /\ text \in DocumentTexts
  /\ categories \in CategoryLists
  /\ \E g \in PromptGivens :
       /\ given = g
       /\ response = ResponseOf(g)
  /\ prompt = NoPrompt
  /\ parsed = NoParsed
  /\ classification = NoClassification
  /\ cloudEvent = NoEvent
  /\ message = NoMessage
  /\ UnusedValidate /\ UnusedEnvironment /\ UnusedError /\ UnusedStage
  /\ UnusedScan /\ UnusedServices /\ UnusedMove /\ UnusedDoc

\* classifyWithGemini up to model.generateContent(prompt).
BuildPrompt ==
  /\ op = "classifyText"
  /\ pc = "call"
  /\ prompt' = Prompt(categories, text)
  /\ pc' = "asked"
  /\ UNCHANGED <<op, pubSubVars, classifyVars, validateVars, envVarsVars, errorVars,
                 stageVars, text, scanVars, serviceVars, moveVars, docVars>>

\* classifyWithGemini from the model's response on.
ReceiveResponse ==
  /\ op = "classifyText"
  /\ pc = "asked"
  /\ parsed' = IF Falsy(response) THEN NoParsed ELSE parseGeminiResponse(response.s)
  /\ classification' = classifyWithGemini(response, categories)
  /\ pc' = "done"
  /\ UNCHANGED <<op, pubSubVars, response, categories, validateVars, envVarsVars,
                 errorVars, stageVars, promptVars, scanVars, serviceVars, moveVars, docVars>>

SpecPrompt == InitPrompt /\ [][BuildPrompt \/ ReceiveResponse]_vars

(***************************************************************************)
(* driveScanner, step by step                                              *)
(***************************************************************************)

InitScan ==
  /\ op = "driveScanner"
  /\ pc = "call"
  /\ cloudEvent \in ScanEvents
  /\ drive \in Drives
  /\ folderId = Undefined
  /\ allFiles = <<>>
  /\ nextPageToken = Undefined
  /\ requests = <<>>
  /\ publishes = <<>>
  /\ scanOutcome = NoScanOutcome
  /\ given = Given("none", Undefined)
  /\ message = NoMessage
  /\ UnusedClassify /\ UnusedValidate /\ UnusedEnvironment /\ UnusedError /\ UnusedStage
  /\ UnusedPrompt /\ UnusedServices /\ UnusedMove /\ UnusedDoc

\* parsePubSubEvent and validateRequiredFields(messageData, ['folderId']).
ScanParameters ==
  /\ op = "driveScanner"
  /\ pc = "call"
  /\ IF ParseAndValidate(cloudEvent, KeyFolderId, Completed).kind # "ok"
     THEN /\ scanOutcome' = ScanFailed(StageCatch("driveScanner",
                               ParseAndValidate(cloudEvent, KeyFolderId, Completed).error))
          /\ pc' = "done"
          /\ UNCHANGED folderId
     ELSE /\ folderId' = Get(parsePubSubEvent(cloudEvent).data, KeyFolderId)
          /\ pc' = "get"
          /\ UNCHANGED scanOutcome
  /\ UNCHANGED <<op, pubSubVars, classifyVars, validateVars, envVarsVars, errorVars,
                 stageVars, drive, allFiles, nextPageToken, requests, publishes,
                 promptVars, serviceVars, moveVars, docVars>>

\* await drive.files.get({fileId: folderId, ...})
ScanGetFolder ==
  /\ op = "driveScanner"
  /\ pc = "get"
  /\ IF drive.folder = "found"
     THEN /\ pc' = "list"
          /\ UNCHANGED scanOutcome
     ELSE /\ scanOutcome' = ScanFailed(StageCatch("driveScanner",
                               ErrorOf("GaxiosError", "File not found", <<>>)))
          /\ pc' = "done"
  /\ UNCHANGED <<op, pubSubVars, classifyVars, validateVars, envVarsVars, errorVars,
                 stageVars, drive, folderId, allFiles, nextPageToken, requests,
                 publishes, promptVars, serviceVars, moveVars, docVars>>

\* One turn of the do-while loop: a request with the token kept, and its
\* response.
ScanListPage ==
  /\ op = "driveScanner"
  /\ pc = "list"
  /\ requests' = Append(requests, nextPageToken)
  /\ allFiles' = allFiles \o ListResponse(drive, nextPageToken).files
  /\ nextPageToken' = NextPageToken(ListResponse(drive, nextPageToken))
  /\ pc' = IF Falsy(nextPageToken') THEN "publish" ELSE "list"
  /\ UNCHANGED <<op, pubSubVars, classifyVars, validateVars, envVarsVars, errorVars,
                 stageVars, drive, folderId, publishes, scanOutcome,
                 promptVars, serviceVars, moveVars, docVars>>

\* allFiles.map(...): every publish is issued.
ScanPublish ==
  /\ op = "driveScanner"
  /\ pc = "publish"
  /\ publishes' = PublishPromises(allFiles)
  /\ pc' = "await"
  /\ UNCHANGED <<op, pubSubVars, classifyVars, validateVars, envVarsVars, errorVars,
                 stageVars, drive, folderId, allFiles, nextPageToken, requests,
                 scanOutcome, promptVars, serviceVars, moveVars, docVars>>

\* Pub/Sub settles one of the publishes issued, in any order, also after the
\* handler has ended.
SettlePublish ==
  /\ op = "driveScanner"
  /\ \E i \in 1..Len(publishes), status \in {"ok", "failed"} :
       /\ publishes[i].status = "pending"
       /\ publishes' = [publishes EXCEPT ![i].status = status]
  /\ UNCHANGED <<op, pc, pubSubVars, classifyVars, validateVars, envVarsVars,
                 errorVars, stageVars, drive, folderId, allFiles, nextPageToken,
                 requests, scanOutcome, promptVars, serviceVars, moveVars, docVars>>

\* await Promise.all(publishPromises) ends, and the handler with it.
ScanAwait ==
  /\ op = "driveScanner"
  /\ pc = "await"
  /\ PromiseAll(TemplateText(folderId), allFiles, publishes) # NoScanOutcome
  /\ scanOutcome' = PromiseAll(TemplateText(folderId), allFiles, publishes)
  /\ pc' = "done"
  /\ UNCHANGED <<op, pubSubVars, classifyVars, validateVars, envVarsVars, errorVars,
                 stageVars, drive, folderId, allFiles, nextPageToken, requests,
                 publishes, promptVars, serviceVars, moveVars, docVars>>

ScanNext ==
  \/ ScanParameters
  \/ ScanGetFolder
  \/ ScanListPage
  \/ ScanPublish
  \/ SettlePublish
  \/ ScanAwait

SpecScan == InitScan /\ [][ScanNext]_vars

(***************************************************************************)
(* textFirebaseWriter                                                      *)
(***************************************************************************)

InitWriter ==
  /\ op = "textFirebaseWriter"
  /\ pc = "call"
  /\ \E input \in WriterInputs :
       /\ storageObjectData = input[1]
       /\ services = input[2]
       /\ environment = input[3]
  /\ calls = <<>>
  /\ returned = NotReturned
  /\ stage = "none"
  /\ external = Completed
  /\ attempt = NoOutcome
  /\ outcome = NoOutcome
  /\ envVars = <<>>
  /\ resolution = NoResolution
  /\ UnusedPubSub /\ UnusedClassify /\ UnusedValidate /\ UnusedError
  /\ UnusedPrompt /\ UnusedScan /\ UnusedMove /\ UnusedDoc

\* An invocation of textFirebaseWriter.
WriteExtractedText ==
  /\ op = "textFirebaseWriter"
  /\ pc = "call"
  /\ calls' = textFirebaseWriter(storageObjectData, services, environment).calls
  /\ returned' = textFirebaseWriter(storageObjectData, services, environment).returned
  /\ pc' = "done"
  /\ UNCHANGED <<op, pubSubVars, classifyVars, validateVars, envVarsVars, errorVars,
                 stageVars, services, promptVars, scanVars, moveVars, docVars>>

SpecWriter == InitWriter /\ [][WriteExtractedText]_vars

(***************************************************************************)
(* textVisionProcessor with its calls                                      *)
(***************************************************************************)

InitVision ==
  /\ op = "textVisionProcessor"
  /\ pc = "call"
  /\ storageObjectData \in VisionObjects
  /\ services \in VisionServicesSet
  /\ environment \in {Obj(<<>>), NominalEnvironment}
  /\ calls = <<>>
  /\ returned = NotReturned
  /\ stage = "none"
  /\ external = Completed
  /\ attempt = NoOutcome
  /\ outcome = NoOutcome
  /\ envVars = <<>>
  /\ resolution = NoResolution
  /\ UnusedPubSub /\ UnusedClassify /\ UnusedValidate /\ UnusedError
  /\ UnusedPrompt /\ UnusedScan /\ UnusedMove /\ UnusedDoc

\* An invocation of textVisionProcessor.
ProcessUpload ==
  /\ op = "textVisionProcessor"
  /\ pc = "call"
  /\ calls' = textVisionProcessor(storageObjectData, services, environment).calls
  /\ returned' = textVisionProcessor(storageObjectData, services, environment).returned
  /\ pc' = "done"
  /\ UNCHANGED <<op, pubSubVars, classifyVars, validateVars, envVarsVars, errorVars,
                 stageVars, services, promptVars, scanVars, moveVars, docVars>>

SpecVision == InitVision /\ [][ProcessUpload]_vars

(***************************************************************************)
(* fileClassifier, step by step                                            *)
(***************************************************************************)

InitClassifier ==
  /\ op = "fileClassifier"
  /\ pc = "call"
  /\ \E input \in ClassifierInputs :
       /\ firestoreEvent = input[1]
       /\ services = input[2]
       /\ environment = input[3]
  /\ documentData = Undefined
  /\ targetFolderId = Undefined
  /\ calls = <<>>
  /\ returned = NotReturned
  /\ response = Undefined
  /\ categories = <<>>
  /\ parsed = NoParsed
  /\ classification = NoClassification
  /\ text = <<>>
  /\ prompt = NoPrompt
  /\ envVars = <<>>
  /\ resolution = NoResolution
  /\ UnusedPubSub /\ UnusedValidate /\ UnusedError /\ UnusedStage
  /\ UnusedScan /\ UnusedDoc

\* The handler ends with the failure of a step.
Fails(thrown) ==
  /\ returned' = fileClassifierCatch(thrown)
  /\ pc' = "done"

\* The environment and the document of the event.
ClassifierParameters ==
  /\ op = "fileClassifier"
  /\ pc = "call"
  /\ IF fileClassifierParameters(firestoreEvent, environment).kind # "ok"
     THEN /\ Fails(fileClassifierParameters(firestoreEvent, environment).error)
          /\ UNCHANGED <<documentData, text>>
     ELSE /\ documentData' = fileClassifierParameters(firestoreEvent, environment).value
          /\ text' = Get(documentData', KeyExtractedText).s
          /\ pc' = "folders"
          /\ UNCHANGED returned
  /\ UNCHANGED <<op, pubSubVars, classifyVars, validateVars, envVarsVars, errorVars,
                 stageVars, prompt, scanVars, docVars, services, calls, firestoreEvent,
                 targetFolderId>>

\* await listCategoryFolders(auth, categoryRootFolderId)
ClassifierListFolders ==
  /\ op = "fileClassifier"
  /\ pc = "folders"
  /\ calls' = Append(calls, Call("drive.files.list",
                                 Get(environment, CATEGORY_ROOT_FOLDER_ID).s))
  /\ IF services.folders.kind # "ok"
     THEN /\ Fails(services.folders.error)
          /\ UNCHANGED categories
     ELSE /\ categories' = services.folders.value
          /\ pc' = "classify"
          /\ UNCHANGED returned
  /\ UNCHANGED <<op, pubSubVars, response, parsed, classification, validateVars,
                 envVarsVars, errorVars, stageVars, promptVars, scanVars, docVars, services,
                 moveVars>>

\* await classifyWithGemini(projectId, documentData.extractedText,
\* categoryFolders), and the target folder.
ClassifierClassify ==
  /\ op = "fileClassifier"
  /\ pc = "classify"
  /\ prompt' = Prompt(categories, text)
  /\ calls' = Append(calls, Call("model.generateContent", prompt'))
  /\ IF services.generated.kind # "ok"
     THEN /\ Fails(services.generated.error)
          /\ UNCHANGED <<response, parsed, classification, targetFolderId>>
     ELSE /\ response' = services.generated.value
          /\ parsed' = IF Falsy(response') THEN NoParsed
                       ELSE parseGeminiResponse(response'.s)
          /\ classification' = classifyWithGemini(response', categories)
          /\ IF classification'.kind # "ok"
             THEN /\ Fails(ErrorOf(classification'.kind, classification'.message, <<>>))
                  /\ UNCHANGED targetFolderId
             ELSE /\ targetFolderId' = TargetFolderId(classification',
                                         Get(environment, UNCATEGORIZED_FOLDER_ID))
                  /\ pc' = "move"
                  /\ UNCHANGED returned
  /\ UNCHANGED <<op, pubSubVars, categories, validateVars, envVarsVars, errorVars,
                 stageVars, text, scanVars, docVars, services, firestoreEvent, documentData>>

\* moveFileInDrive: await drive.files.get({fileId, fields: 'parents'})
ClassifierGetParents ==
  /\ op = "fileClassifier"
  /\ pc = "move"
  /\ calls' = Append(calls, Call("drive.files.get", Get(documentData, KeyFileId)))
  /\ IF services.parents.kind # "ok"
     THEN Fails(services.parents.error)
     ELSE /\ pc' = "reparent"
          /\ UNCHANGED returned
  /\ UNCHANGED <<op, pubSubVars, classifyVars, validateVars, envVarsVars, errorVars,
                 stageVars, promptVars, scanVars, docVars, services, moveVars>>

\* moveFileInDrive: await drive.files.update({fileId, addParents,
\* removeParents})
ClassifierMove ==
  /\ op = "fileClassifier"
  /\ pc = "reparent"
  /\ calls' = Append(calls, Call("drive.files.update",
                                 [fileId |-> Get(documentData, KeyFileId),
                                  addParents |-> targetFolderId,
                                  removeParents |-> services.parents.value]))
  /\ IF services.moved.kind # "ok"
     THEN Fails(services.moved.error)
     ELSE /\ pc' = "record"
          /\ UNCHANGED returned
  /\ UNCHANGED <<op, pubSubVars, classifyVars, validateVars, envVarsVars, errorVars,
                 stageVars, promptVars, scanVars, docVars, services, moveVars>>

\* getDocumentPathFromEvent, await updateDocumentWithClassification(...),
\* and the result.
ClassifierUpdateRecord ==
  /\ op = "fileClassifier"
  /\ pc = "record"
  /\ pc' = "done"
  /\ IF getDocumentPathFromEvent(firestoreEvent).kind # "ok"
     THEN /\ returned' = fileClassifierCatch(getDocumentPathFromEvent(firestoreEvent).error)
          /\ UNCHANGED calls
     ELSE /\ calls' = Append(calls, Call("firestore.update",
                        [documentPath |-> getDocumentPathFromEvent(firestoreEvent).value,
                         update |-> ClassificationUpdate(classification, targetFolderId)]))
          /\ returned' = IF services.updated.kind # "ok"
                         THEN fileClassifierCatch(services.updated.error)
                         ELSE Returns(ClassifierResult(documentData, classification))
  /\ UNCHANGED <<op, pubSubVars, classifyVars, validateVars, envVarsVars, errorVars,
                 stageVars, promptVars, scanVars, docVars, services, moveVars>>

ClassifierNext ==
  \/ ClassifierParameters
  \/ ClassifierListFolders
  \/ ClassifierClassify
  \/ ClassifierGetParents
  \/ ClassifierMove
  \/ ClassifierUpdateRecord

SpecClassifier == InitClassifier /\ [][ClassifierNext]_vars

(***************************************************************************)
(* docProcessor, step by step, for events processed one after the other    *)
(***************************************************************************)

InitDoc ==
  /\ op = "docProcessor"
  /\ pc = "call"
  /\ queue \in UNION {[1..n -> DocEvents] : n \in 1..MaxInvocations}
  /\ bucket \in Buckets
  /\ pendingUploads = {}
  /\ environment \in {NominalEnvironment, Obj(<<>>)}
  /\ services = DriveFiles
  /\ file = Undefined
  /\ fileBuffer = <<>>
  /\ contentHash = <<>>
  /\ objectName = <<>>
  /\ exists = FALSE
  /\ results = <<>>
  /\ calls = <<>>
  /\ returned = NotReturned
  /\ envVars = <<>>
  /\ resolution = NoResolution
  /\ UnusedPubSub /\ UnusedClassify /\ UnusedValidate /\ UnusedError /\ UnusedStage
  /\ UnusedPrompt /\ UnusedScan /\ UnusedMove

\* The invocation in progress, and the file id of its message.
Invocation == Len(results) + 1
FileIdAsked == Get(parsePubSubEvent(Head(queue)).data, KeyFileId)

\* The invocation ends: the next event is processed after it.
DocEnds(result) ==
  /\ results' = Append(results, result)
  /\ returned' = result
  /\ queue' = Tail(queue)
  /\ pc' = IF Tail(queue) = <<>> THEN "done" ELSE "call"

DocContinues(next) ==
  /\ pc' = next
  /\ UNCHANGED <<queue, results, returned>>

\* parsePubSubEvent, validateRequiredFields(messageData, ['fileId']) and
\* getProjectId.
DocParameters ==
  /\ op = "docProcessor"
  /\ pc = "call"
  /\ IF docProcessorTry(Head(queue), environment, Completed).kind # "ok"
     THEN DocEnds(docProcessorCatch(docProcessorTry(Head(queue), environment, Completed).error))
     ELSE DocContinues("meta")
  /\ file' = Undefined
  /\ fileBuffer' = <<>>
  /\ contentHash' = <<>>
  /\ objectName' = <<>>
  /\ exists' = FALSE
  /\ UNCHANGED <<op, pubSubVars, classifyVars, validateVars, envVarsVars, errorVars,
                 stageVars, services, calls, bucket, pendingUploads,
                 promptVars, scanVars, moveVars>>

\* await drive.files.get({fileId, fields})
DocGetFile ==
  /\ op = "docProcessor"
  /\ pc = "meta"
  /\ calls' = Append(calls, Call("drive.files.get", [invocation |-> Invocation,
                                                      fileId |-> FileIdAsked]))
  /\ IF FileIdAsked.t # "string" \/ FileIdAsked.s \notin DOMAIN services
     THEN /\ DocEnds(docProcessorCatch(ErrorOf("GaxiosError", "File not found", <<>>)))
          /\ UNCHANGED file
     ELSE /\ file' = services[FileIdAsked.s].metadata
          /\ IF Falsy(Get(file', KeyId)) \/ Falsy(Get(file', KeyName))
             THEN DocEnds(docProcessorCatch(ErrorOf("Error",
                    "Invalid file data received for fileId: " \o Text(FileIdAsked.s), <<>>)))
             ELSE DocContinues("download")
  /\ UNCHANGED <<op, pubSubVars, classifyVars, validateVars, envVarsVars, errorVars,
                 stageVars, services, bucket, pendingUploads, fileBuffer, contentHash,
                 objectName, exists, promptVars, scanVars, moveVars>>

\* await drive.files.get({fileId, alt: 'media'}), and the stream read to its
\* end or to an error.
DocDownload ==
  /\ op = "docProcessor"
  /\ pc = "download"
  /\ calls' = Append(calls, Call("drive.files.get.media", [invocation |-> Invocation,
                                                            fileId |-> FileIdAsked]))
  /\ \/ /\ fileBuffer' = Concat(services[FileIdAsked.s].chunks)
        /\ contentHash' = HashDigestHex(HashOfChunks(HashInit, services[FileIdAsked.s].chunks))
        /\ objectName' = ObjectName(contentHash')
        /\ DocContinues("exists")
     \/ /\ DocEnds(docProcessorCatch(ErrorOf("Error", "stream error", <<>>)))
        /\ UNCHANGED <<fileBuffer, contentHash, objectName>>
  /\ UNCHANGED <<op, pubSubVars, classifyVars, validateVars, envVarsVars, errorVars,
                 stageVars, services, bucket, pendingUploads, file, exists,
                 promptVars, scanVars, moveVars>>

\* await storageFile.exists()
DocExists ==
  /\ op = "docProcessor"
  /\ pc = "exists"
  /\ calls' = Append(calls, Call("storage.exists", [invocation |-> Invocation,
                                                     name |-> objectName,
                                                     answered |-> Exists(bucket, objectName)]))
  /\ exists' = Exists(bucket, objectName)
  /\ DocContinues(IF NeedsUpload(exists') THEN "upload" ELSE "metadata")
  /\ UNCHANGED <<op, pubSubVars, classifyVars, validateVars, envVarsVars, errorVars,
                 stageVars, services, bucket, pendingUploads, file, fileBuffer,
                 contentHash, objectName, promptVars, scanVars, moveVars>>

\* storageFile.createWriteStream(...) and stream.write(fileBuffer, ...): the
\* write fails, or the buffer is taken and the stream ended, the object
\* being stored some time after.
DocUpload ==
  /\ op = "docProcessor"
  /\ pc = "upload"
  /\ calls' = Append(calls, Call("storage.write", [invocation |-> Invocation,
                                                    name |-> objectName]))
  /\ \/ /\ pendingUploads' = pendingUploads
                               \cup {StoredObject(objectName, Len(fileBuffer))}
        /\ DocContinues("metadata")
     \/ /\ DocEnds(docProcessorCatch(ErrorOf("Error", "write failed", <<>>)))
        /\ UNCHANGED pendingUploads
  /\ UNCHANGED <<op, pubSubVars, classifyVars, validateVars, envVarsVars, errorVars,
                 stageVars, services, bucket, file, fileBuffer, contentHash,
                 objectName, exists, promptVars, scanVars, moveVars>>

\* Cloud Storage stores an object written.
FinalizeUpload ==
  /\ op = "docProcessor"
  /\ \E o \in pendingUploads :
       /\ bucket' = {b \in bucket : b.name # o.name} \cup {o}
       /\ pendingUploads' = pendingUploads \ {o}
  /\ UNCHANGED <<op, pc, pubSubVars, classifyVars, validateVars, envVarsVars,
                 errorVars, stageVars, services, calls, returned, queue, file,
                 fileBuffer, contentHash, objectName, exists, results,
                 promptVars, scanVars, moveVars>>

\* await storageFile.getMetadata(), and the result.
DocGetMetadata ==
  /\ op = "docProcessor"
  /\ pc = "metadata"
  /\ calls' = Append(calls, Call("storage.getMetadata", [invocation |-> Invocation,
                                                          name |-> objectName]))
  /\ IF Exists(bucket, objectName)
     THEN DocEnds(Returns(DocResult(file, exists, getProjectId(environment).result.s,
                                    objectName,
                                    (CHOOSE o \in bucket : o.name = objectName).size)))
     ELSE DocEnds(docProcessorCatch(ErrorOf("ApiError", "No such object", <<>>)))
  /\ UNCHANGED <<op, pubSubVars, classifyVars, validateVars, envVarsVars, errorVars,
                 stageVars, services, bucket, pendingUploads, file, fileBuffer,
                 contentHash, objectName, exists, promptVars, scanVars, moveVars>>

DocNext ==
  \/ DocParameters
  \/ DocGetFile
  \/ DocDownload
  \/ DocExists
  \/ DocUpload
  \/ FinalizeUpload
  \/ DocGetMetadata

SpecDoc == InitDoc /\ [][DocNext]_vars
Init ==
  \/ InitPubSub
  \/ InitClassify
  \/ InitValidate
  \/ InitEnvironment
  \/ InitError
  \/ InitStage
  \/ InitPrompt
  \/ InitScan
  \/ InitWriter
  \/ InitVision
  \/ InitClassifier
  \/ InitDoc

Next ==
  \/ ParsePubSubEvent
  \/ ClassifyWithGemini
  \/ ValidateRequiredFields
  \/ GetEnvironmentVariables
  \/ GetProjectId
  \/ CreateErrorResponse
  \/ HandleEvent
  \/ BuildPrompt
  \/ ReceiveResponse
  \/ ScanParameters
  \/ ScanGetFolder
  \/ ScanListPage
  \/ ScanPublish
  \/ SettlePublish
  \/ ScanAwait
  \/ WriteExtractedText
  \/ ProcessUpload
  \/ ClassifierParameters
  \/ ClassifierListFolders
  \/ ClassifierClassify
  \/ ClassifierGetParents
  \/ ClassifierMove
  \/ ClassifierUpdateRecord
  \/ DocParameters
  \/ DocGetFile
  \/ DocDownload
  \/ DocExists
  \/ DocUpload
  \/ FinalizeUpload
  \/ DocGetMetadata

Spec == Init /\ [][Next]_vars

(***************************************************************************)
(* Properties of classifyWithGemini (checked under SpecClassify)           *)
(***************************************************************************)

Classified == op = "classifyWithGemini" /\ pc = "done"

\* The parsed category is the name of some candidate.
NamesCandidate == \E i \in 1..Len(categories) : categories[i].name = parsed.category

\* The first candidate whose name is the parsed category.
FirstCandidate ==
  categories[CHOOSE i \in 1..Len(categories) :
               /\ categories[i].name = parsed.category
               /\ \A j \in 1..(i - 1) : categories[j].name # parsed.category]

\* The confidence the response states, pulled to the nearest bound of [0, 1].
StatedConfidence == Get(given.x, KeyConfidence)

NearestInUnit(n) == IF n.m < 0 THEN Zero ELSE IF NumLess(One, n) THEN One ELSE n

\* C1: when the parsed category is the name of no candidate and is not the
\* sentinel UNCATEGORIZED, the call returns (does not throw) the degraded
\* result: no category name, no folder id, confidence 0 and a reasoning that
\* contains the unmatched category text in place of the model's reasoning.
C1_UnmatchedDegrades ==
  (Classified /\ parsed.kind = "ok" /\ ~NamesCandidate /\ parsed.category # UNCATEGORIZED)
    => /\ classification.kind = "ok"
       /\ classification.categoryName = Null
       /\ classification.categoryFolderId = Null
       /\ classification.confidence = Zero
       /\ Contains(classification.reasoning, <<34>> \o parsed.category \o <<34>>)
       /\ classification.reasoning # parsed.reasoning

C1_Witness ==
  /\ Classified
  /\ parsed.kind = "ok"
  /\ parsed.category = Str(<<"Z", "z", "z">>)
  /\ parsed.confidence = One
  /\ Len(categories) = 2
  /\ classification.confidence = Zero
  /\ classification.categoryName = Null

\* C2: for a successfully parsed response, the result has a category name
\* exactly when the parsed category equals (case-sensitively) the name of a
\* candidate; then the name is the parsed one, the folder id is that of the
\* first such candidate, and confidence and reasoning are the parsed ones.
C2_NameIffCandidate ==
  (Classified /\ parsed.kind = "ok")
    => /\ classification.kind = "ok"
       /\ (classification.categoryName # Null) <=> NamesCandidate
       /\ NamesCandidate =>
            /\ classification.categoryName = StrV(parsed.category)
            /\ classification.categoryFolderId = StrV(FirstCandidate.id)
            /\ classification.confidence = parsed.confidence
            /\ classification.reasoning = parsed.reasoning

C2_Witness ==
  /\ Classified
  /\ parsed.kind = "ok"
  /\ parsed.category = Str(<<"I", "n", "v">>)
  /\ Len(categories) = 2
  /\ categories[1].name = categories[2].name
  /\ classification.categoryFolderId = StrV(Str(<<"f", "1">>))

\* C3: every returned result has a confidence in [0, 1]; where the model's
\* confidence is kept (a matched category or the sentinel) a stated value
\* below 0 has become 0, one above 1 has become 1 and one in range is unchanged.
C3_ConfidenceInUnit ==
  (Classified /\ classification.kind = "ok")
    => /\ ~NumLess(classification.confidence, Zero)
       /\ ~NumLess(One, classification.confidence)
       /\ (given.form \in {"bare", "fenced", "chatty"}
             /\ (NamesCandidate \/ parsed.category = UNCATEGORIZED))
            => classification.confidence = NearestInUnit(StatedConfidence)

C3_Witness ==
  /\ Classified
  /\ given.form = "bare"
  /\ StatedConfidence = Num(15, 0 - 1)
  /\ NamesCandidate
  /\ classification.kind = "ok"
  /\ classification.confidence = One

\* C4: when the parsed category is the sentinel UNCATEGORIZED and is the name
\* of no candidate, the result has no category name and no folder id, and
\* keeps the model's clamped confidence and its reasoning.
C4_SentinelKeepsConfidence ==
  (Classified /\ parsed.kind = "ok" /\ ~NamesCandidate /\ parsed.category = UNCATEGORIZED)
    => /\ classification.kind = "ok"
       /\ classification.categoryName = Null
       /\ classification.categoryFolderId = Null
       /\ classification.confidence = parsed.confidence
       /\ classification.reasoning = parsed.reasoning
       /\ given.form \in {"bare", "fenced", "chatty"} =>
            /\ classification.confidence = NearestInUnit(StatedConfidence)
            /\ classification.reasoning = Get(given.x, KeyReasoning).s

C4_Witness ==
  /\ Classified
  /\ parsed.kind = "ok"
  /\ parsed.category = UNCATEGORIZED
  /\ ~NamesCandidate
  /\ Len(categories) = 2
  /\ classification.categoryName = Null
  /\ classification.confidence = Num(5, 0 - 1)
  /\ classification.reasoning = Str(<<"n", "o", " ", "f", "i", "t">>)

(***************************************************************************)
(* Properties of parsePubSubEvent (checked under SpecPubSub)               *)
(***************************************************************************)

ParsedEvent == op = "parsePubSubEvent" /\ pc = "done"

\* The attributes of a message: the source when the event has one.
ExpectedAttributes ==
  IF cloudEvent.source.t = "string" /\ cloudEvent.source.s # <<>>
  THEN Obj(<<Member(Str(<<"s", "o", "u", "r", "c", "e">>), cloudEvent.source)>>)
  ELSE Undefined

\* C5: a payload that is the base64 encoding of the JSON text of a record x
\* is parsed to data x, with attributes {source: s} when the event has source s.
C5_Base64RoundTrip ==
  (ParsedEvent /\ given.form = "base64")
    => /\ message.kind = "ok"
       /\ message.data = given.x
       /\ message.attributes = ExpectedAttributes

C5_Witness ==
  /\ ParsedEvent
  /\ given.form = "base64"
  /\ Len(given.x.kv) = 2
  /\ message.kind = "ok"
  /\ message.data = given.x
  /\ message.attributes # Undefined

\* C6: a payload that is the plain JSON text of a record x is parsed, through
\* the raw-text fallback, to data x.
C6_PlainJsonFallback ==
  (ParsedEvent /\ given.form = "json")
    => /\ message.kind = "ok"
       /\ message.data = given.x

\* C7: a payload that is already a record is returned unchanged as data, with
\* attributes {source: s} when the event has source s and none otherwise.
C7_RecordPassesThrough ==
  (ParsedEvent /\ given.form = "value" /\ given.x.t = "object")
    => message = Returned(given.x, ExpectedAttributes)

C7_Witness ==
  /\ ParsedEvent
  /\ given.form = "value"
  /\ given.x.t = "object"
  /\ Len(given.x.kv) = 2
  /\ cloudEvent.source = Undefined
  /\ message.kind = "ok"
  /\ message.attributes = Undefined

StringPayload == cloudEvent.present /\ cloudEvent.data.t = "string"

C9_AbsentFailsValidation ==
  (ParsedEvent /\ (~cloudEvent.present \/ cloudEvent.data.t \in {"undefined", "null"}))
    => /\ message.kind = "ValidationError"
       /\ message.data = Undefined

C9_Witness ==
  /\ ParsedEvent
  /\ cloudEvent.present
  /\ cloudEvent.data = Null
  /\ message.kind = "ValidationError"
  /\ message.message = "CloudEvent data is required"

\* C10: a payload that is a number, a boolean or an array fails with a
\* validation failure whose message names the payload's type, and is never
\* returned as data.
C10_OtherTypesFailValidation ==
  (ParsedEvent /\ cloudEvent.present /\ cloudEvent.data.t \in {"number", "boolean", "array"})
    => /\ message.kind = "ValidationError"
       /\ message.message = "Unsupported data type: " \o TypeOf(cloudEvent.data)

(***************************************************************************)
(* Properties of the parser's error kinds (checked under SpecPubSub)       *)
(***************************************************************************)

\* C11: every failure that escapes parsePubSubEvent is a ValidationError or
\* a ParameterParsingError: an exception of any other class raised inside
\* is wrapped as a ParameterParsingError, and an error of the two kinds
\* raised inside escapes as it is, never rewrapped as the other kind.
C11_TwoKindsEscape ==
  ParsedEvent
    => /\ message.kind \in {"ok", "ValidationError", "ParameterParsingError"}
       /\ given.form = "throws"
            => message = Thrown("ParameterParsingError",
                                "Failed to parse PubSub CloudEvent", "TypeError")
       /\ parsePubSubEventTry(cloudEvent).kind \in {"ValidationError", "ParameterParsingError"}
            => message = parsePubSubEventTry(cloudEvent)
       /\ (cloudEvent.present /\ cloudEvent.data = Null)
            => message.kind = "ValidationError"
       /\ given.form = "json"
            => message = Thrown("ParameterParsingError",
                                "Failed to parse JSON data from PubSub message",
                                "SyntaxError")

C11_Witness ==
  /\ ParsedEvent
  /\ given.form = "throws"
  /\ parsePubSubEventTry(cloudEvent).kind = "TypeError"
  /\ message.kind = "ParameterParsingError"
  /\ message.cause = "TypeError"

(***************************************************************************)
(* Properties of the stage handlers (checked under SpecStage)              *)
(***************************************************************************)

Handled == op = "stage" /\ pc = "done"

\* The error the try block threw is of one of the parser's two kinds.
OwnKind(e) == e.isError /\ e.class \in {"ValidationError", "ParameterParsingError"}

\* The message of a thrown value, as the catch blocks read it.
OriginalMessage(e) == IF e.isError THEN e.message ELSE "Unknown error occurred"

\* C12: in every stage handler, a ValidationError or ParameterParsingError
\* raised while handling the event is thrown to the caller unchanged, and any
\* other failure is thrown as a generic Error whose message is the stage's
\* prefix followed by the original message.
C12_OwnKindsPropagate ==
  (Handled /\ attempt.kind # "ok")
    => IF OwnKind(attempt.error)
       THEN outcome = Failed(attempt.error)
       ELSE outcome = Failed(ErrorOf("Error",
                              StagePrefix(stage) \o OriginalMessage(attempt.error), <<>>))

(***************************************************************************)
(* Properties of validateRequiredFields (checked under SpecValidate)       *)
(***************************************************************************)

Validated == op = "validateRequiredFields" /\ pc = "done"

\* The value of the field in data is absent, null or the empty string.
AbsentNullOrEmpty(field) ==
  \/ ~HasKey(data, field)
  \/ Get(data, field) \in {Undefined, Null, StrV(<<>>)}

\* The required fields that are missing, in the order of the list.
MissingAsListed == SelectSeq(requiredFields, AbsentNullOrEmpty)

\* C13: a required field is missing exactly when its value in data is
\* absent, null or the empty string (0, false and any other value are
\* present); the check returns nothing iff no required field is missing, and
\* fails with a ValidationError otherwise.
C13_MissingIffAbsentNullEmpty ==
  Validated
    => /\ validation.kind \in {"ok", "ValidationError"}
       /\ validation.kind = "ok"
            <=> \A i \in 1..Len(requiredFields) : ~AbsentNullOrEmpty(requiredFields[i])
       /\ validation.kind = "ok" => validation = Passed

C13_Witness ==
  /\ Validated
  /\ requiredFields = <<Str(<<"a">>), Str(<<"b">>)>>
  /\ Get(data, Str(<<"a">>)) = Num(0, 0)
  /\ Get(data, Str(<<"b">>)) = Bool(FALSE)
  /\ validation = Passed

\* C14: when the check fails, the error's message lists all the missing
\* required fields, joined by ", " in the order of the list of required
\* fields, and the error's field is the first of them; for required [a, b]
\* and data {a: 'x'} the message names b and the field is b.
C14_ListsAllNamesFirst ==
  (Validated /\ validation.kind # "ok")
    => /\ validation.error.class = "ValidationError"
       /\ validation.error.message
            = "Missing required fields: " \o Join(MissingAsListed, ", ")
       /\ validation.error.field = MissingAsListed[1]
       /\ (requiredFields = <<Str(<<"a">>), Str(<<"b">>)>>
             /\ data = Obj(<<Member(Str(<<"a">>), StrV(Str(<<"x">>)))>>))
            => /\ validation.error.message = "Missing required fields: b"
               /\ validation.error.field = Str(<<"b">>)
       /\ (requiredFields = <<Str(<<"c">>), Str(<<"a">>)>> /\ data = Obj(<<>>))
            => /\ validation.error.message = "Missing required fields: c, a"
               /\ validation.error.field = Str(<<"c">>)

C14_Witness ==
  /\ Validated
  /\ requiredFields = <<Str(<<"c">>), Str(<<"a">>)>>
  /\ data = Obj(<<Member(Str(<<"a">>), StrV(<<>>)), Member(Str(<<"b">>), Num(0, 0))>>)
  /\ validation.error.message = "Missing required fields: c, a"
  /\ validation.error.field = Str(<<"c">>)

(***************************************************************************)
(* Properties of the environment resolver (checked under SpecEnvironment)  *)
(***************************************************************************)

VariablesResolved == op = "getEnvironmentVariables" /\ pc = "done"
ProjectResolved == op = "getProjectId" /\ pc = "done"

\* The variable is set to a value that is not empty.
IsSet(name) == HasKey(environment, name) /\ Get(environment, name) # StrV(<<>>)

\* Both lookups of the name give nothing: no value that is not empty.
ResolvesToNothing(name) == ~IsSet(name) /\ ~IsSet(GoogleCloudPrefix \o name)

\* The names of the required entries that resolve to nothing, in order.
MissingRequired ==
  LET missing == SelectSeq(envVars, LAMBDA entry :
                             entry.required /\ ResolvesToNothing(entry.name))
  IN  [i \in 1..Len(missing) |-> missing[i].name]

\* C15: if a required entry resolves to nothing after both lookups, the call
\* fails with a ValidationError whose message lists all the missing required
\* names joined by ", ", and returns no map, whatever else resolved.
C15_AllOrNothing ==
  (VariablesResolved /\ Len(MissingRequired) > 0)
    => /\ resolution.kind = "ValidationError"
       /\ resolution.error.message
            = "Missing required environment variables: " \o Join(MissingRequired, ", ")
       /\ resolution.result = Undefined

C15_Witness ==
  /\ VariablesResolved
  /\ envVars = <<EnvVar(NameA, TRUE), EnvVar(NameB, TRUE)>>
  /\ IsSet(NameA)
  /\ ResolvesToNothing(NameB)
  /\ resolution.kind = "ValidationError"
  /\ resolution.error.message = "Missing required environment variables: B"

\* The value the claim gives a name: environment[name], and the prefixed
\* variable's only when environment[name] is absent.
ValueWhenAbsent(name) ==
  IF HasKey(environment, name) THEN Get(environment, name)
  ELSE Get(environment, GoogleCloudPrefix \o name)

\* The value the code gives a name: environment[name], and the prefixed
\* variable's when environment[name] is absent or empty.
ValueWhenAbsentOrEmpty(name) ==
  IF IsSet(name) THEN Get(environment, name)
  ELSE Get(environment, GoogleCloudPrefix \o name)

\* The keys of the result are the requested names that value gives a value.
MapsEntries(Value(_)) ==
  /\ \A i \in 1..Len(envVars) :
       /\ HasKey(resolution.result, envVars[i].name) <=> Value(envVars[i].name) # Undefined
       /\ Get(resolution.result, envVars[i].name) = Value(envVars[i].name)
  /\ \A j \in 1..Len(resolution.result.kv) :
       \E i \in 1..Len(envVars) : envVars[i].name = resolution.result.kv[j].k

\* C16 as claimed: on success each requested name maps to environment[name],
\* and to the prefixed variable only when environment[name] is absent; every
\* entry that resolves has a key, and there are no other keys.
C16_FallbackOnlyWhenAbsent ==
  (VariablesResolved /\ resolution.kind = "ok") => MapsEntries(ValueWhenAbsent)

\* The value of a name, when it is not empty.
NonEmptyValue(name) ==
  IF ValueWhenAbsentOrEmpty(name) = StrV(<<>>) THEN Undefined
  ELSE ValueWhenAbsentOrEmpty(name)

\* C16, amended: on success each requested name maps to environment[name]
\* when that is set and not empty, and otherwise to the prefixed variable
\* when that is set and not empty; exactly the entries that resolve so have
\* a key (an entry that does not is required by no success, and is omitted
\* when not required), the success is exactly when no required entry
\* resolves to nothing, and there are no other keys.
C16_FallbackWhenAbsentOrEmpty ==
  VariablesResolved
    => /\ resolution.kind = "ok" <=> Len(MissingRequired) = 0
       /\ resolution.kind = "ok" => MapsEntries(NonEmptyValue)

C16_Witness ==
  /\ VariablesResolved
  /\ envVars = <<EnvVar(NameA, TRUE), EnvVar(NameB, FALSE)>>
  /\ Get(environment, NameA) = StrV(<<>>)
  /\ IsSet(GoogleCloudPrefix \o NameA)
  /\ ResolvesToNothing(NameB)
  /\ resolution = Resolved(Obj(<<Member(NameA, ValueOf(GoogleCloudPrefix \o NameA))>>))

ProjectNames == <<PROJECT_ID, GOOGLE_CLOUD_PROJECT, GCLOUD_PROJECT>>

\* The value of the first of the three names that holds in the environment.
FirstProject(Holds(_)) ==
  Get(environment,
      ProjectNames[CHOOSE i \in 1..3 :
                     /\ Holds(ProjectNames[i])
                     /\ \A j \in 1..(i - 1) : ~Holds(ProjectNames[j])])

IsPresent(name) == HasKey(environment, name)

\* C17 as claimed: getProjectId returns the value of the first variable
\* that is set among PROJECT_ID, GOOGLE_CLOUD_PROJECT and GCLOUD_PROJECT, and
\* fails with a ValidationError iff none of the three is set.
C17_FirstSetProject ==
  ProjectResolved
    => IF \E i \in 1..3 : IsPresent(ProjectNames[i])
       THEN resolution = Resolved(FirstProject(IsPresent))
       ELSE resolution.kind = "ValidationError"

\* C17, amended: getProjectId returns the value of the first variable that
\* is set to a value that is not empty among PROJECT_ID, GOOGLE_CLOUD_PROJECT
\* and GCLOUD_PROJECT, and fails with a ValidationError iff none of the
\* three is (a variable set to the empty string counts as not set).
C17_FirstNonEmptyProject ==
  ProjectResolved
    => IF \E i \in 1..3 : IsSet(ProjectNames[i])
       THEN resolution = Resolved(FirstProject(IsSet))
       ELSE /\ resolution.kind = "ValidationError"
            /\ resolution.error.message = "PROJECT_ID environment variable is required"
            /\ resolution.result = Undefined

C17_Witness ==
  /\ ProjectResolved
  /\ ~IsPresent(PROJECT_ID)
  /\ IsSet(GOOGLE_CLOUD_PROJECT)
  /\ IsSet(GCLOUD_PROJECT)
  /\ resolution = Resolved(ValueOf(GOOGLE_CLOUD_PROJECT))

(***************************************************************************)
(* Properties of createErrorResponse (checked under SpecError)             *)
(***************************************************************************)

Normalized == op = "createErrorResponse" /\ pc = "done"

\* C18: the record returned has the context given; for a
\* ParameterParsingError or a ValidationError its error is the message and
\* its type the name of that kind; for any other Error its error is the
\* message and its type the name of the error's class; for a value that is
\* not an Error its error is 'Unknown error occurred' and its type
\* 'UnknownError'.
C18_NormalizedByShape ==
  Normalized
    => /\ errorResponse.context = context
       /\ OwnKind(error)
            => /\ errorResponse.error = error.message
               /\ errorResponse.type = error.class
       /\ (error.isError /\ ~OwnKind(error))
            => /\ errorResponse.error = error.message
               /\ errorResponse.type = error.class
       /\ ~error.isError
            => /\ errorResponse.error = "Unknown error occurred"
               /\ errorResponse.type = "UnknownError"

C18_Witness ==
  /\ Normalized
  /\ error = ErrorOf("GaxiosError", "boom", <<>>)
  /\ errorResponse = ErrorResponse("boom", context, "GaxiosError")

ExtractionText ==
  IF FenceMatch(response.s).found THEN FenceMatch(response.s).text ELSE response.s

\* No '{' of the text has a '}' after it.
NoBraceSpan(t) == ~\E i, j \in 1..Len(t) : i < j /\ t[i] = 123 /\ t[j] = 125

\* C21: when the response text (the interior of its fenced JSON block when
\* there is one) contains no brace-delimited substring, the parser fails
\* with a failure of the parsing kind ('no JSON object found'), which the
\* error normalizer reports as ParameterParsingError, and no result is
\* produced.
C21_NoObjectFailsParsingKind ==
  (Classified /\ response.t = "string" /\ response.s # <<>> /\ NoBraceSpan(ExtractionText))
    => /\ parsed.message = "No JSON object found in Gemini response"
       /\ classification.kind # "ok"
       /\ classification.message = parsed.message
       /\ parsed.kind = "ParameterParsingError"
       /\ createErrorResponse(ErrorOf(classification.kind, classification.message, <<>>),
                              "fileClassifier").type = "ParameterParsingError"

\* C22: for every JSON object text j and every list of candidates, the
\* response that wraps j in a fenced JSON block gives the same result, or the
\* same failure, as the response j alone.
C22_FencedSameAsBare ==
  (Classified /\ given.form = "fenced")
    => classification = classifyWithGemini(StrV(Stringify(given.x)), categories)

\* C28: the object is the span from the first '{' to the last '}' of the
\* extraction text: with an empty pair of braces before the object, a brace
\* after it, or the object written twice, that whole span is parsed, it is
\* not valid JSON, and the call fails with the SyntaxError instead of
\* falling back to a shorter span; with text around the object that has no
\* brace, the span is the object.
C28_GreedySpan ==
  Classified
    => /\ given.form \in {"braces before", "brace after", "twice"}
            => /\ ObjectMatch(response.s).text = response.s
               /\ parsed = ParseError("SyntaxError", "JSON.parse")
               /\ classification = ClassifyError("SyntaxError", "JSON.parse")
       /\ given.form = "chatty"
            => /\ ObjectMatch(response.s).text = Stringify(given.x)
               /\ parsed.kind = "ok"
               /\ classification.kind = "ok"

C28_Witness ==
  /\ Classified
  /\ given.form = "braces before"
  /\ Get(given.x, KeyCategory) = StrV(Str(<<"I", "n", "v">>))
  /\ Len(categories) > 0
  /\ categories[1].name = Str(<<"I", "n", "v">>)
  /\ classification.kind = "SyntaxError"

(***************************************************************************)
(* Properties of the prompt (checked under SpecPrompt)                     *)
(***************************************************************************)

Asked == op = "classifyText" /\ pc \in {"asked", "done"}

\* The first n characters of a text, the whole text when it is shorter.
IsPrefixOfLength(p, t, n) ==
  /\ Len(p) = IF Len(t) < n THEN Len(t) ELSE n
  /\ \A i \in 1..Len(p) : p[i] = t[i]

\* C23: the document text embedded in the prompt is the first 3000
\* characters of the input text, the whole text when it is shorter; the
\* classification of a longer text proceeds with no error, and its result
\* has the four fields of a Classification Result and nothing that tells of
\* the truncation: it is the result the same response gives for any text.
C23_PromptTextTruncated ==
  /\ Asked => IsPrefixOfLength(prompt.truncatedText, text, 3000)
  /\ (op = "classifyText" /\ pc = "done")
       => /\ classification = classifyWithGemini(response, categories)
          /\ DOMAIN classification
               = {"kind", "message", "categoryName", "categoryFolderId",
                  "confidence", "reasoning"}
          /\ given.form \in {"bare", "fenced"} => classification.kind = "ok"

C23_Witness ==
  /\ op = "classifyText"
  /\ pc = "done"
  /\ Len(text) = 3002
  /\ Len(prompt.truncatedText) = 3000
  /\ classification.kind = "ok"
  /\ classification.categoryName = StrV(Str(<<"I", "n", "v">>))

(***************************************************************************)
(* Properties of the discovery handler (checked under SpecScan)            *)
(***************************************************************************)

Scanning == op = "driveScanner"

\* The listing has ended: the loop of requests is over.
ListingEnded == Scanning /\ pc \in {"publish", "await", "done"} /\ requests # <<>>

\* The files of all the pages, in the order of the pages.
RECURSIVE FilesOfPages(_)
FilesOfPages(pages) ==
  IF pages = <<>> THEN <<>> ELSE Head(pages) \o FilesOfPages(Tail(pages))

\* The token the response to request k carries, undefined for the last page.
TokenCarried(k) == IF k < Len(drive.pages) THEN PageToken(k + 1) ELSE Undefined

\* C24: the discovery handler requests the pages of the listing one after
\* the other, the first request with no token and each later one with the
\* token the response before it carried, until a response carries no token;
\* it then issues one publish per file accumulated over all the pages, in
\* their order, and on success filesFound = publishedMessages = the number
\* of files of all the pages.
C24_PagesThenOnePublishPerFile ==
  Scanning
    => /\ requests # <<>> => requests[1] = Undefined
       /\ \A k \in 2..Len(requests) :
            requests[k] = TokenCarried(k - 1) /\ requests[k] # Undefined
       /\ ListingEnded
            => /\ TokenCarried(Len(requests)) = Undefined
               /\ allFiles = FilesOfPages(drive.pages)
       /\ (ListingEnded /\ pc # "publish")
            => /\ Len(publishes) = Len(allFiles)
               /\ \A i \in 1..Len(allFiles) : publishes[i].fileId = allFiles[i]
       /\ ~ListingEnded => publishes = <<>>
       /\ scanOutcome.kind = "ok"
            => /\ scanOutcome.filesFound = Len(FilesOfPages(drive.pages))
               /\ scanOutcome.publishedMessages = scanOutcome.filesFound
               /\ scanOutcome.files = FilesOfPages(drive.pages)

C24_Witness ==
  /\ Scanning
  /\ pc = "done"
  /\ scanOutcome.kind = "ok"
  /\ requests = <<Undefined, PageToken(2)>>
  /\ Len(drive.pages[1]) = 2
  /\ scanOutcome.filesFound = 3
  /\ scanOutcome.publishedMessages = 3

\* C29: the publishes are all issued before any of them is waited for: when
\* a publish has failed, a publish has been issued for every listed file,
\* whether it has settled or not; and when a publish has failed the handler
\* does not succeed: it ends with the failure and reports no files and no
\* count, and it succeeds only when every publish has succeeded.
C29_PublishesIndependent ==
  Scanning
    => /\ (\E i \in 1..Len(publishes) : publishes[i].status = "failed")
            => /\ Len(publishes) = Len(FilesOfPages(drive.pages))
               /\ \A j \in 1..Len(publishes) :
                    publishes[j].fileId = FilesOfPages(drive.pages)[j]
               /\ scanOutcome.kind # "ok"
               /\ pc = "done"
                    => /\ scanOutcome.kind = "failed"
                       /\ scanOutcome.error
                            = ErrorOf("Error",
                                "Drive document scanner failed: publish failed", <<>>)
                       /\ scanOutcome.filesFound = 0
                       /\ scanOutcome.publishedMessages = 0
                       /\ scanOutcome.files = <<>>
       /\ scanOutcome.kind = "ok"
            => \A i \in 1..Len(publishes) : publishes[i].status = "ok"

C29_Witness ==
  /\ Scanning
  /\ pc = "done"
  /\ scanOutcome.kind = "failed"
  /\ Len(publishes) = 3
  /\ publishes[1].status = "failed"
  /\ publishes[2].status = "pending"
  /\ publishes[3].status = "ok"

(***************************************************************************)
(* Properties of the persistence handler (checked under SpecWriter)        *)
(***************************************************************************)

\* The handler has run and has written a document: the document.
Stored ==
  /\ op = "textFirebaseWriter"
  /\ pc = "done"
  /\ \E i \in 1..Len(calls) : calls[i].service = "firestore.add"
StoredDocument ==
  calls[CHOOSE i \in 1..Len(calls) : calls[i].service = "firestore.add"].arg

\* The OCR responses of the result file, and the text and the confidence of
\* each: no text is the empty text, no confidence is 0.
OcrResponses == Get(services.content.value, KeyResponses).kv
OcrText(r) ==
  IF HasKey(r, KeyFullTextAnnotation) /\ HasKey(Get(r, KeyFullTextAnnotation), KeyText)
  THEN Get(Get(r, KeyFullTextAnnotation), KeyText).s
  ELSE <<>>
OcrConfidence(r) ==
  IF HasKey(r, KeyFullTextAnnotation) /\ HasKey(Get(r, KeyFullTextAnnotation), KeyPages)
  THEN Get(Get(Get(r, KeyFullTextAnnotation), KeyPages).kv[1], KeyConfidence)
  ELSE Zero

\* A number of hundredths as an integer.
Hundredths(n) == n.m * Pow(10, n.e + 2)

\* The responses whose text has a character that is not white space.
NonBlank == {i \in 1..Len(OcrResponses) :
               \E j \in 1..Len(OcrText(OcrResponses[i])) :
                 ~IsSpace(OcrText(OcrResponses[i])[j])}

\* The k-th of them in input order.
KthNonBlank(k) ==
  CHOOSE i \in NonBlank : Cardinality({j \in NonBlank : j <= i}) = k

RECURSIVE SumOfHundredths(_)
SumOfHundredths(S) ==
  IF S = {} THEN 0
  ELSE LET i == CHOOSE i \in S : TRUE
       IN  Hundredths(OcrConfidence(OcrResponses[i])) + SumOfHundredths(S \ {i})

\* C25: the pages of the stored document are the OCR responses whose text is
\* not blank after trimming, numbered 1..n in input order with their text
\* and confidence; the stored confidence is the sum of their confidences
\* divided by n, and 0 when n = 0, so that blank responses count for
\* neither; the page count returned is n.
C25_PagesAreNonBlankResponses ==
  Stored
    => /\ Len(StoredDocument.pages) = Cardinality(NonBlank)
       /\ \A k \in 1..Cardinality(NonBlank) :
            /\ StoredDocument.pages[k].pageNumber = k
            /\ StoredDocument.pages[k].text = OcrText(OcrResponses[KthNonBlank(k)])
            /\ StoredDocument.pages[k].confidence
                 = OcrConfidence(OcrResponses[KthNonBlank(k)])
       /\ IF NonBlank = {}
          THEN Hundredths(StoredDocument.confidence.num) = 0
          ELSE Hundredths(StoredDocument.confidence.num) * Cardinality(NonBlank)
                 = SumOfHundredths(NonBlank) * StoredDocument.confidence.den
       /\ returned.kind = "ok"
            => /\ returned.result.pages = Cardinality(NonBlank)
               /\ returned.result.confidence = StoredDocument.confidence

C25_Witness ==
  /\ Stored
  /\ returned.kind = "ok"
  /\ Len(OcrResponses) = 3
  /\ OcrText(OcrResponses[1]) = <<32, 10>>
  /\ OcrText(OcrResponses[2]) = Str(<<" ", "b", " ">>)
  /\ OcrConfidence(OcrResponses[3]) = Num(5, 0 - 1)
  /\ NonBlank = {2, 3}
  /\ returned.result.pages = 2
  /\ StoredDocument.pages[2].pageNumber = 2
  /\ Hundredths(StoredDocument.confidence.num) = 145
  /\ StoredDocument.confidence.den = 2

(***************************************************************************)
(* Properties of the extraction handler (checked under SpecVision)         *)
(***************************************************************************)

Extracted == op = "textVisionProcessor" /\ pc = "done"

\* The content type of the event, undefined when it has none.
EventContentType == Get(storageObjectData, KeyContentType)

SupportedTypes ==
  {Str(<<"a", "p", "p", "l", "i", "c", "a", "t", "i", "o", "n", "/", "p", "d", "f">>), Str(<<"t", "e", "x", "t", "/", "p", "l", "a", "i", "n">>), Str(<<"i", "m", "a", "g", "e", "/", "j", "p", "e", "g">>), Str(<<"i", "m", "a", "g", "e", "/", "p", "n", "g">>),
   Str(<<"i", "m", "a", "g", "e", "/", "g", "i", "f">>), Str(<<"i", "m", "a", "g", "e", "/", "b", "m", "p">>), Str(<<"i", "m", "a", "g", "e", "/", "w", "e", "b", "p">>), Str(<<"i", "m", "a", "g", "e", "/", "t", "i", "f", "f">>)}

AbsentOrUnsupported ==
  EventContentType.t # "string" \/ EventContentType.s \notin SupportedTypes

CallsOf(prefix) ==
  {i \in 1..Len(calls) : SubSeq(calls[i].service, 1, Len(prefix)) = prefix}

\* C26: the extraction handler calls the Vision API for no event whose
\* content type is text/plain, absent or unsupported; for an absent or
\* unsupported type it fails with no call of storage at all; a text/plain
\* event that succeeds has read the file, written one result of a single
\* response with confidence 1.0 and the text read, and returns the
\* operationId 'text-direct-processing'.
C26_NoVisionForPlainOrUnsupported ==
  Extracted
    => /\ (AbsentOrUnsupported \/ EventContentType = StrV(Str(<<"t", "e", "x", "t", "/", "p", "l", "a", "i", "n">>)))
            => \A i \in 1..Len(calls) :
                 calls[i].service \notin {"vision.asyncBatchAnnotateFiles",
                                          "vision.operation.promise"}
       /\ AbsentOrUnsupported => (calls = <<>> /\ returned.kind = "failed")
       /\ (EventContentType = StrV(Str(<<"t", "e", "x", "t", "/", "p", "l", "a", "i", "n">>)) /\ returned.kind = "ok")
            => /\ Len(calls) = 3
               /\ calls[1].service = "storage.getMetadata"
               /\ calls[2].service = "storage.download"
               /\ calls[3].service = "storage.save"
               /\ Len(Get(calls[3].arg.content, KeyResponses).kv) = 1
               /\ Get(ItemAt(Get(Get(ItemAt(Get(calls[3].arg.content, KeyResponses), 0),
                                     KeyFullTextAnnotation), KeyPages), 0),
                      KeyConfidence) = Num(1, 0)
               /\ Get(Get(ItemAt(Get(calls[3].arg.content, KeyResponses), 0),
                          KeyFullTextAnnotation), KeyText) = StrV(services.content.value)
               /\ returned.result.operationId = Str(<<"t", "e", "x", "t", "-", "d", "i", "r", "e", "c", "t", "-", "p", "r", "o", "c", "e", "s", "s", "i", "n", "g">>)

C26_Witness ==
  /\ Extracted
  /\ EventContentType = StrV(Str(<<"t", "e", "x", "t", "/", "p", "l", "a", "i", "n">>))
  /\ returned.kind = "ok"
  /\ Len(calls) = 3
  /\ returned.result.operationId = Str(<<"t", "e", "x", "t", "-", "d", "i", "r", "e", "c", "t", "-", "p", "r", "o", "c", "e", "s", "s", "i", "n", "g">>)

\* An image is sent to the Vision API.
C26_WitnessVision ==
  /\ Extracted
  /\ EventContentType = StrV(Str(<<"i", "m", "a", "g", "e", "/", "p", "n", "g">>))
  /\ returned.kind = "ok"
  /\ calls[2].service = "vision.asyncBatchAnnotateFiles"

(***************************************************************************)
(* Properties of the classification handler (checked under SpecClassifier) *)
(***************************************************************************)

Classifying == op = "fileClassifier"

\* The positions of the calls of a service in the order they were made.
CallsTo(service) == {i \in 1..Len(calls) : calls[i].service = service}

\* The configured uncategorized folder.
UncategorizedFolder == Get(environment, UNCATEGORIZED_FOLDER_ID)

\* C27: fileClassifier moves the file to the classification's
\* categoryFolderId when it is not null and to the configured uncategorized
\* folder otherwise; the update of the record is issued only after the move
\* has succeeded, once, with that target folder (never null) as
\* categoryFolderId and the classification's categoryName as category; when
\* the classification or the move fails no update of the record is made.
C27_MoveThenRecord ==
  Classifying
    => /\ \A i \in CallsTo("drive.files.update") :
            /\ classification.kind = "ok"
            /\ calls[i].arg.addParents
                 = IF classification.categoryFolderId # Null
                   THEN classification.categoryFolderId ELSE UncategorizedFolder
       /\ \A i \in CallsTo("firestore.update") :
            /\ \E j \in CallsTo("drive.files.update") :
                 /\ j < i
                 /\ calls[i].arg.update.categoryFolderId = calls[j].arg.addParents
            /\ services.parents.kind = "ok"
            /\ services.moved.kind = "ok"
            /\ calls[i].arg.update.categoryFolderId # Null
            /\ calls[i].arg.update.categoryFolderId.t = "string"
            /\ calls[i].arg.update.category = classification.categoryName
       /\ Cardinality(CallsTo("firestore.update")) <= 1
       /\ Cardinality(CallsTo("drive.files.update")) <= 1
       /\ (pc = "done" /\ (classification.kind # "ok" \/ services.parents.kind # "ok"
                            \/ services.moved.kind # "ok"))
            => (CallsTo("firestore.update") = {} /\ returned.kind = "failed")

\* The sentinel answered: the file goes to the uncategorized folder, and the
\* record has that folder and no category.
C27_Witness ==
  /\ Classifying
  /\ pc = "done"
  /\ returned.kind = "ok"
  /\ classification.categoryFolderId = Null
  /\ classification.categoryName = Null
  /\ \E i \in CallsTo("firestore.update") :
       /\ calls[i].arg.update.categoryFolderId = StrV(Str(<<"u", "n", "c">>))
       /\ calls[i].arg.update.category = Null
       /\ calls[i].arg.documentPath = Str(<<"e", "x", "t", "r", "a", "c", "t", "e", "d", "_", "t", "e", "x", "t", "s", "/", "d", "o", "c", "1">>)

\* The move rejected: the handler fails with no update of the record.
C27_WitnessMoveFailed ==
  /\ Classifying
  /\ pc = "done"
  /\ CallsTo("drive.files.update") # {}
  /\ services.moved.kind = "rejected"
  /\ returned.error
       = ErrorOf("Error", "File classification failed: Permission denied", <<>>)

(***************************************************************************)
(* Properties of the preparation handler (checked under SpecDoc)           *)
(***************************************************************************)

Processing == op = "docProcessor"

\* The calls of a service made by an invocation.
CallsBy(service, i) == {k \in CallsTo(service) : calls[k].arg.invocation = i}

\* The invocations that returned a result.
ReturnedOk == {i \in 1..Len(results) : results[i].kind = "ok"}

\* The bytes an invocation downloaded, and their digest taken at once.
ContentOf(i) ==
  Concat(services[calls[CHOOSE k \in CallsBy("drive.files.get.media", i) : TRUE]
                    .arg.fileId.s].chunks)
DigestHexOf(bytes) == HashDigestHex(HashUpdate(HashInit, bytes))

C30_WitnessFirstFailed ==
  /\ Processing
  /\ Len(results) = 2
  /\ results[1].kind = "failed"
  /\ results[2].kind = "ok"
  /\ Cardinality(CallsBy("storage.write", 1)) = 1
  /\ Cardinality(CallsBy("storage.write", 2)) = 1
  /\ \A k \in CallsTo("storage.write") : calls[k].arg.name = results[2].result.objectName
====
